---- MODULE Spec2Model ----
(***************************************************************************)
(* Parker Square search (parkersquare.py, the generic engine, and          *)
(* parkersquare2.py, the dual-square engine): the number-theoretic         *)
(* pre-filters, the value tables, the iterative back-tracking search with  *)
(* its checkpoint file, and the loops that walk magic numbers and ranges.  *)
(*                                                                         *)
(* Python lists are functions over 0..len-1, None is modelled by an empty  *)
(* sequence (plan entries) or by a "kind" field (files, return values).    *)
(***************************************************************************)
EXTENDS Integers, Sequences, FiniteSets, TLC

\* ------------------------------------------------------------------ bounds
\* Largest magic number the generic engine is started with.
MaxMagic == 15
\* Largest power (-p) the generic engine is started with.
MaxPower == 2
\* The engine saves its state every 100000000 iterations
\* (src/parkersquare.py:359); the model keeps the code's comparison and
\* scales the interval so that searches of a few thousand steps cross it.
SaveInterval == 40

\* Magic numbers the dual-square engine is started with: rejected by each
\* pre-filter in turn (10, 0, 15, 6, 75: one pair of squares only) and
\* 12675 = 3 * 65^2, the smallest with four pairs of squares;
\* 2910675 = 3 * 985^2 has four pairs, one of them 1 + 1393^2.
DualMagic == {0, 6, 10, 15, 27, 75, 12675, 2910675}

\* ------------------------------------------------------- helper arithmetic
Rng(f) == {f[i] : i \in DOMAIN f}

Max2(a, b) == IF a >= b THEN a ELSE b

RECURSIVE Pow(_, _)
Pow(b, e) == IF e = 0 THEN 1 ELSE b * Pow(b, e - 1)

\* Python's abs()
Abs(a) == IF a < 0 THEN -a ELSE a

\* len(str(n)) for n >= 0
RECURSIVE DecLen(_)
DecLen(n) == IF n < 10 THEN 1 ELSE 1 + DecLen(n \div 10)

\* int(x ** (1 / p)) for x >= 0: the float root truncated.  For p <= 6 and
\* x < 200000 the double-precision result truncates to the largest k with
\* k^p <= x, except when x is a cube or a sixth power k^p with k >= 4: the
\* float is then just below k (64 ** (1 / 3) = 3.9999999999999996) and
\* int() gives k - 1.
RECURSIVE RootFrom(_, _, _)
RootFrom(k, x, p) == IF Pow(k + 1, p) <= x THEN RootFrom(k + 1, x, p) ELSE k



FloatRootInt(x, p) ==
  LET k == RootFrom(0, x, p)
  IN  IF p \in {3, 6} /\ k >= 4 /\ Pow(k, p) = x THEN k - 1 ELSE k

\* ------------------------------------------------- number-theoretic filters
\* ParkerThreeSquareCheck: "while number % 4 == 0: number //= 4" never ends
\* for number = 0 (0 // 4 = 0).
ThreeSquareLoops(number) == number = 0

\* No factor of 4 is removed before the test modulo 8: what C15 excludes.
KeepFours(number) == number

RECURSIVE StripFours(_)
StripFours(number) ==
  IF number % 4 = 0 THEN StripFours(number \div 4) ELSE number

\* Defined for number > 0.
ParkerThreeSquareCheck(number) == StripFours(number) % 8 # 7

\* ParkerIntegerSqrt: [kind |-> "int", val], [kind |-> "None"] or
\* [kind |-> "ZeroDivisionError"] (n = 1: x = n // 2 = 0, then n // x).
RECURSIVE SqrtLoop(_, _)
SqrtLoop(x, n) ==
  IF x = 0 THEN -1
  ELSE LET y == (x + n \div x) \div 2
       IN  IF Abs(x - y) < 2 THEN x ELSE SqrtLoop(y, n)

ParkerIntegerSqrt(n) ==
  IF n = 0 THEN [kind |-> "int", val |-> 0]
  ELSE LET x == SqrtLoop(n \div 2, n)
       IN  IF x = -1 THEN [kind |-> "ZeroDivisionError", val |-> 0]
           ELSE IF x * x = n THEN [kind |-> "int", val |-> x]
           ELSE IF (x - 1) * (x - 1) = n THEN [kind |-> "int", val |-> x - 1]
           ELSE IF (x + 1) * (x + 1) = n THEN [kind |-> "int", val |-> x + 1]
           ELSE [kind |-> "None", val |-> 0]

\* A root extraction that accepts whatever passed the sieves: what C13
\* excludes.
RootAlwaysFound(x, n, a) == TRUE

\* ParkerIsSquare: the reduction by powers of 4, the bit and modulo sieves
\* and the Babylonian root extraction with its set of visited values.
RECURSIVE Babylon(_, _, _)
Babylon(x, n, a) ==
  IF x * x = n THEN TRUE
  ELSE LET x1 == (x + (n \div x)) \div 2
       IN  IF x1 \in a THEN FALSE ELSE Babylon(x1, n, a \cup {x1})

SieveAndRoot(n) ==
  LET c == n % 10
  IN  IF n % 8 # 1 THEN FALSE
      ELSE IF n = 1 THEN TRUE
      ELSE IF c \in {3, 7} THEN FALSE
      ELSE IF n % 7 \in {3, 5, 6} THEN FALSE
      ELSE IF n % 9 \in {2, 3, 5, 6, 8} THEN FALSE
      ELSE IF n % 13 \in {2, 5, 6, 7, 8, 11} THEN FALSE
      ELSE IF c = 5 /\ (n \div 10) % 10 # 2 THEN FALSE
      ELSE IF c = 5 /\ (n \div 100) % 10 \notin {0, 2, 6} THEN FALSE
      ELSE IF c = 5 /\ (n \div 100) % 10 = 6 /\ (n \div 1000) % 10 \notin {0, 5}
        THEN FALSE
      ELSE IF c # 5 /\ (n \div 10) % 4 # 0 THEN FALSE
      ELSE LET s == (DecLen(n) - 1) \div 2
               x == Pow(10, s) * 4
           IN  Babylon(x, n, {x, n})

ParkerIsSquare(n) ==
  IF n < 0 THEN FALSE
  ELSE IF n = 0 THEN TRUE
  ELSE SieveAndRoot(StripFours(n))

\* ------------------------------------------------------------ engine state
VARIABLES
  prog,           \* "generic": parkersquare.py, "dual": parkersquare2.py
  inMagicNumber,  \* ParkerSquare's argument (glbMagicNumber)
  glbPower,       \* inConfig["Parker"]["power"]
  glbBruteForce,  \* inConfig["Parker"]["bruteforce"] starts with 't'
  cfgState,       \* inConfig["Parker"]["state"] starts with 't'
  cfgSingle,      \* inConfig["Parker"]["processes"] == "1"
  glbArrSize,     \* size of the value table
  glbArrNumbers,  \* the value table: index -> magnitude
  glbArrValues,   \* its reverse: magnitude -> index (generic engine)
  glbMatrix,      \* the grid, slots 1..9 (slot 0 unused)
  glbCntSearch,   \* the cursor into the search order
  found,          \* _parkerSearch's local: a magic square was found
  iteration,      \* _parkerSearch's local: iterations since the last save
  pc,             \* where the ParkerSquare call is
  exc,            \* the exception that left ParkerSquare, or "none"
  retval,         \* what ParkerSquare returned: "None", "True", "False"
  outcome,        \* how the unit ended: "Found", "NotFound", "Infeasible"
  emitted,        \* the grids reported as magic squares by this process
  stateFile,      \* content of the engine's state file state_<number>.txt
  tableBuilt,     \* the value table has been allocated and filled
  resumed,        \* the process was stopped and ParkerSquare started again
  shadow,         \* the run that was stopped, continued from its last save
  returned        \* <<outcome, retval>> of the units finished so far

engineVars ==
  <<prog, inMagicNumber, glbPower, glbBruteForce, cfgState, cfgSingle,
    glbArrSize, glbArrNumbers, glbArrValues, glbMatrix, glbCntSearch, found,
    iteration, pc, exc, retval, outcome, emitted, stateFile, tableBuilt,
    resumed, shadow, returned>>

\* The state of the process that walks the ranges.
VARIABLES
  wProg,         \* "generic": MainLoop of parkersquare.py, "dual": WalkRanges
  magicRanges,   \* the ranges of the command line: [start, end]
  nrProcesses,   \* int( config processes )
  wState,        \* config state starts with 't'
  wpc,           \* where the walking process is
  wexc,          \* the exception that left WalkRanges, or "none"
  iCurrRange,    \* MainLoop's index of the current range
  iRangeWalk,    \* the current number in the current range
  iIteration,    \* WalkRanges' candidates since the last save
  procArr,       \* MainLoop's process slots
  mainState,     \* MainLoop's state dictionary, kind "none" for None
  mainFile,      \* content of state_main.json
  rangeFile,     \* content of WalkRanges' state_<iRangeNo>.json
  tested,        \* [range, number] handed to ParkerSquare by the range loop
  testedBefore,  \* the same of the process that was stopped
  restarted,     \* numbers started again from the state's "currprocs"
  wResumed,      \* the program was stopped and started again
  wRestored      \* the walk position taken from a state file, 0 for none

walkVars ==
  <<wProg, magicRanges, nrProcesses, wState, wpc, wexc, iCurrRange,
    iRangeWalk, iIteration, procArr, mainState, mainFile, rangeFile, tested,
    testedBefore, restarted, wResumed, wRestored>>

\* ------------------------------------------------- a call of one filter
VARIABLES
  fn,            \* the function called, "start" before the call
  arg,           \* its argument
  fnResult       \* what the call gave: [kind, val]

filterVars == <<fn, arg, fnResult>>

NoResult == [kind |-> "none", val |-> 0]

\* No filter is called on its own.
FilterIdle ==
  /\ fn = "none"
  /\ arg = 0
  /\ fnResult = NoResult

glbMatrixSize == 9

\* [0] * (glbMatrixSize + 1)
EmptyMatrix == [i \in 0..glbMatrixSize |-> 0]

\* glbArrNumbers and glbArrSize as ParkerSquare's first lines set them:
\* [0] and 1 in parkersquare.py, [] in parkersquare2.py, which has no size.
InitialNumbers == IF prog = "generic" THEN [k \in {0} |-> 0] ELSE <<>>

InitialSize == IF prog = "generic" THEN 1 ELSE 0

\* A state file: absent, cut short by a stopped write, JSON without the
\* "glbCntSearch" key, or the JSON object _parkerStateSave writes.
NoFile == [kind |-> "absent", glbCntSearch |-> 0, glbMatrix |-> EmptyMatrix]

TruncatedFile ==
  [kind |-> "truncated", glbCntSearch |-> 0, glbMatrix |-> EmptyMatrix]

\* ------------------------------------------------------------ search order
Step(f, c, s) == [field |-> f, calc |-> c, start |-> s]

BruteForceOrder ==
  [i \in 1..9 |->
     CASE i = 1 -> Step(1, <<>>, <<>>)
       [] i = 2 -> Step(3, <<>>, <<>>)
       [] i = 3 -> Step(2, <<1, 3>>, <<>>)
       [] i = 4 -> Step(5, <<>>, <<>>)
       [] i = 5 -> Step(7, <<3, 5>>, <<>>)
       [] i = 6 -> Step(4, <<1, 7>>, <<>>)
       [] i = 7 -> Step(6, <<4, 5>>, <<>>)
       [] i = 8 -> Step(8, <<2, 5>>, <<>>)
       [] i = 9 -> Step(9, <<3, 6>>, <<>>)]

\* A power-1 order whose third step takes field 9 from fields 1 and 3, a
\* row, instead of the diagonal through the centre: what C16 excludes.
PowerOneOrderOffDiagonal ==
  [i \in 1..9 |->
     CASE i = 1 -> Step(5, <<>>, <<>>)
       [] i = 2 -> Step(1, <<>>, <<>>)
       [] i = 3 -> Step(9, <<1, 3>>, <<>>)
       [] i = 4 -> Step(3, <<>>, <<1>>)
       [] i = 5 -> Step(2, <<1, 3>>, <<>>)
       [] i = 6 -> Step(6, <<3, 9>>, <<>>)
       [] i = 7 -> Step(4, <<5, 6>>, <<>>)
       [] i = 8 -> Step(8, <<2, 5>>, <<>>)
       [] i = 9 -> Step(7, <<1, 4>>, <<>>)]

PowerOneOrder ==
  [i \in 1..9 |->
     CASE i = 1 -> Step(5, <<>>, <<>>)
       [] i = 2 -> Step(1, <<>>, <<>>)
       [] i = 3 -> Step(9, <<1, 5>>, <<>>)
       [] i = 4 -> Step(3, <<>>, <<1>>)
       [] i = 5 -> Step(2, <<1, 3>>, <<>>)
       [] i = 6 -> Step(6, <<3, 9>>, <<>>)
       [] i = 7 -> Step(4, <<5, 6>>, <<>>)
       [] i = 8 -> Step(8, <<2, 5>>, <<>>)
       [] i = 9 -> Step(7, <<1, 4>>, <<>>)]

GeneralOrder ==
  [i \in 1..9 |->
     CASE i = 1 -> Step(1, <<>>, <<>>)
       [] i = 2 -> Step(3, <<>>, <<1>>)
       [] i = 3 -> Step(2, <<1, 3>>, <<>>)
       [] i = 4 -> Step(5, <<>>, <<3>>)
       [] i = 5 -> Step(7, <<3, 5>>, <<>>)
       [] i = 6 -> Step(4, <<1, 7>>, <<>>)
       [] i = 7 -> Step(6, <<4, 5>>, <<>>)
       [] i = 8 -> Step(8, <<2, 5>>, <<>>)
       [] i = 9 -> Step(9, <<3, 6>>, <<>>)]

\* The order _parkerInit (generic) or _parkerSearch (dual) stores.
glbSearchArr ==
  IF prog = "dual" \/ glbBruteForce THEN BruteForceOrder
  ELSE IF glbPower = 1 THEN PowerOneOrder
  ELSE GeneralOrder

\* A floor of the cursor that is 1 in brute force and 0 in the power-1
\* plan, which then starts at its first step: what C30 excludes.
checkSearchOnBruteForce ==
  IF prog = "generic" /\ glbBruteForce /\ glbPower = 1 THEN 1 ELSE 0

\* _parkerSearch's locals checkSearch and maxSearch.
checkSearch ==
  IF prog = "generic" /\ ~glbBruteForce /\ glbPower = 1 THEN 1 ELSE 0

\* A bound that cuts the brute-force plan to a quarter of the table, so that
\* it cannot reach the centre value: what C17 excludes.
maxSearchBruteCut ==
  IF prog = "dual" THEN Cardinality(DOMAIN glbArrNumbers) - 1
  ELSE IF glbBruteForce THEN glbArrSize \div 4
  ELSE IF glbPower = 1 THEN inMagicNumber \div 3 + 1
  ELSE glbArrSize \div 2 + 1

maxSearch ==
  IF prog = "dual" THEN Cardinality(DOMAIN glbArrNumbers) - 1
  ELSE IF glbBruteForce THEN glbArrSize
  ELSE IF glbPower = 1 THEN inMagicNumber \div 3 + 1
  ELSE glbArrSize \div 2 + 1

\* "while checkSearch < glbCntSearch <= glbMatrixSize"
LoopCondition(cnt) == checkSearch < cnt /\ cnt <= glbMatrixSize

\* ----------------------------------------------------- the final verifier
\* The eight line sums of a grid on the table-resolved magnitudes, in the
\* order row1..row3, col1..col3, d1, d2.
LineSums(mat) ==
  LET v(i) == glbArrNumbers[mat[i]]
  IN  << v(1) + v(2) + v(3), v(4) + v(5) + v(6), v(7) + v(8) + v(9),
         v(1) + v(4) + v(7), v(2) + v(5) + v(8), v(3) + v(6) + v(9),
         v(1) + v(5) + v(9), v(3) + v(5) + v(7) >>

\* The second print of parkersquare2.py formats
\* ParkerIntegerSqrt(glbArrNumbers[glbMatrix[i]]) for the nine slots: the
\* call divides by zero for 1, and formatting None with ">{width}" raises.
SqrtPrintRaises(mat) ==
  LET kinds == {ParkerIntegerSqrt(glbArrNumbers[mat[i]]).kind : i \in 1..9}
  IN  IF "ZeroDivisionError" \in kinds THEN "ZeroDivisionError"
      ELSE IF "None" \in kinds THEN "TypeError"
      ELSE "none"

\* A verifier that leaves the first diagonal out of the comparison: what
\* C3 excludes.
_parkerPrintMatrixSevenLines(mat) ==
  IF \/ ~(1..9 \subseteq DOMAIN mat)
     \/ \E i \in 1..9 : mat[i] \notin DOMAIN glbArrNumbers
  THEN [exc |-> "IndexError", result |-> FALSE]
  ELSE [exc |-> IF prog = "dual" THEN SqrtPrintRaises(mat) ELSE "none",
        result |-> \A k \in (1..6) \cup {8} : LineSums(mat)[k] = inMagicNumber]

\* _parkerPrintMatrix: [exc, result]; result is TRUE when no line sum
\* differs from the magic number.
_parkerPrintMatrix(mat) ==
  IF \/ ~(1..9 \subseteq DOMAIN mat)
     \/ \E i \in 1..9 : mat[i] \notin DOMAIN glbArrNumbers
  THEN [exc |-> "IndexError", result |-> FALSE]
  ELSE LET sums == LineSums(mat)
           row1 == sums[1]
           row2 == sums[2]
           row3 == sums[3]
           col1 == sums[4]
           col2 == sums[5]
           col3 == sums[6]
           d1   == sums[7]
           d2   == sums[8]
           result ==
             IF \/ row1 # inMagicNumber
                \/ row2 # inMagicNumber
                \/ row3 # inMagicNumber
                \/ col1 # inMagicNumber
                \/ col2 # inMagicNumber
                \/ col3 # inMagicNumber
                \/ d1 # inMagicNumber
                \/ d2 # inMagicNumber
             THEN FALSE
             ELSE TRUE
       IN  [exc |-> IF prog = "dual" THEN SqrtPrintRaises(mat) ELSE "none",
            result |-> result]

\* --------------------------------------------------- one loop iteration
\* The search state a loop iteration works on: e = [cnt, mat, found,
\* emitted]; the result adds exc, the exception the iteration raised.
Raise(e, name) ==
  [cnt |-> e.cnt, mat |-> e.mat, found |-> e.found, emitted |-> e.emitted,
   exc |-> name]

Goto(e, cnt, mat) ==
  [cnt |-> cnt, mat |-> mat, found |-> e.found, emitted |-> e.emitted,
   exc |-> "none"]

\* A next value that is taken whether or not the grid holds it already:
\* what C29 excludes.
NextValueUnchecked(newValue, mat) == newValue

\* "while newValue in glbMatrix: newValue += 1"
RECURSIVE NextFree(_, _)
NextFree(newValue, mat) ==
  IF newValue \in Rng(mat) THEN NextFree(newValue + 1, mat) ELSE newValue

\* "for iVal in currStart: newValue = max(newValue, glbMatrix[iVal])"
StartValue(mat, currStart) ==
  LET vals == {0} \cup {mat[currStart[i]] : i \in DOMAIN currStart}
  IN  CHOOSE m \in vals : \A w \in vals : w <= m

\* currCalc == None: iterate the field.
EnumeratedField(e, currSearch) ==
  LET currField == currSearch.field
      currStart == currSearch.start
  IN  IF ~(({currField} \cup Rng(currStart)) \subseteq DOMAIN e.mat)
      THEN Raise(e, "IndexError")
      ELSE
        LET m0 == IF e.mat[currField] = 0 /\ currStart # <<>>
                  THEN [e.mat EXCEPT ![currField] = StartValue(e.mat, currStart)]
                  ELSE e.mat
            newValue == NextFree(m0[currField] + 1, m0)
        IN  IF newValue > maxSearch
            THEN Goto(e, e.cnt - 1, [m0 EXCEPT ![currField] = 0])
            ELSE Goto(e, e.cnt + 1, [m0 EXCEPT ![currField] = newValue])

\* The table index of a magnitude: glbArrValues[fldValue] in the generic
\* engine, the first index holding it in the dual-square engine.
InTable(fldValue) ==
  IF prog = "dual" THEN fldValue \in Rng(glbArrNumbers)
  ELSE fldValue \in DOMAIN glbArrValues

IndexOf(fldValue) ==
  IF prog = "dual"
  THEN CHOOSE k \in DOMAIN glbArrNumbers :
         /\ glbArrNumbers[k] = fldValue
         /\ \A j \in DOMAIN glbArrNumbers : glbArrNumbers[j] = fldValue => k <= j
  ELSE glbArrValues[fldValue]

\* A verifier step that leaves the cursor past the last step in brute force
\* as well, so that every plan stops on its first solution: what C28
\* excludes.
AfterFillFirstOnly(e, mat) ==
  LET cnt == e.cnt + 1
  IN  IF cnt > glbMatrixSize
      THEN LET chk == _parkerPrintMatrix(mat)
           IN  IF chk.exc # "none" THEN Raise(Goto(e, cnt, mat), chk.exc)
               ELSE IF ~chk.result THEN Goto(e, cnt - 1, mat)
               ELSE [cnt |-> cnt,
                     mat |-> mat,
                     found |-> TRUE,
                     emitted |-> Append(e.emitted, mat),
                     exc |-> "none"]
      ELSE IF \/ prog = "dual" /\ cnt > 5
              \/ prog = "generic" /\ ~glbBruteForce /\ glbPower >= 2 /\ cnt > 8
      THEN LET chk == _parkerPrintMatrix(mat)
           IN  IF chk.exc # "none" THEN Raise(Goto(e, cnt, mat), chk.exc)
               ELSE Goto(e, cnt, mat)
      ELSE Goto(e, cnt, mat)

\* After a calculated field was filled and the cursor advanced: past the
\* last step the grid is verified, before it the engines print a preview.
AfterFill(e, mat) ==
  LET cnt == e.cnt + 1
  IN  IF cnt > glbMatrixSize
      THEN LET chk == _parkerPrintMatrix(mat)
           IN  IF chk.exc # "none" THEN Raise(Goto(e, cnt, mat), chk.exc)
               ELSE IF ~chk.result THEN Goto(e, cnt - 1, mat)
               ELSE [cnt |-> IF prog = "generic" /\ glbBruteForce
                             THEN cnt - 1 ELSE cnt,
                     mat |-> mat,
                     found |-> TRUE,
                     emitted |-> Append(e.emitted, mat),
                     exc |-> "none"]
      ELSE IF \/ prog = "dual" /\ cnt > 5
              \/ prog = "generic" /\ ~glbBruteForce /\ glbPower >= 2 /\ cnt > 8
      THEN LET chk == _parkerPrintMatrix(mat)
           IN  IF chk.exc # "none" THEN Raise(Goto(e, cnt, mat), chk.exc)
               ELSE Goto(e, cnt, mat)
      ELSE Goto(e, cnt, mat)

\* A calculated field that is emptied and calculated again at once when
\* the cursor comes back to it: what C27 excludes.
CalculatedFieldAgain(e, currSearch) ==
  LET currField == currSearch.field
      currCalc  == currSearch.calc
  IN  IF ~({currField, currCalc[1], currCalc[2]} \subseteq DOMAIN e.mat)
      THEN Raise(e, "IndexError")
      ELSE IF e.mat[currField] # 0
      THEN Goto(e, e.cnt, [e.mat EXCEPT ![currField] = 0])
      ELSE
        LET fldPos1 == e.mat[currCalc[1]]
            fldPos2 == e.mat[currCalc[2]]
        IN  IF ~({fldPos1, fldPos2} \subseteq DOMAIN glbArrNumbers)
            THEN Raise(e, "IndexError")
            ELSE
              LET fldValue == inMagicNumber - glbArrNumbers[fldPos1]
                                            - glbArrNumbers[fldPos2]
              IN  IF fldValue <= 0 THEN Goto(e, e.cnt - 1, e.mat)
                  ELSE IF ~InTable(fldValue) THEN Goto(e, e.cnt - 1, e.mat)
                  ELSE IF IndexOf(fldValue) \in Rng(e.mat)
                    THEN Goto(e, e.cnt - 1, e.mat)
                  ELSE AfterFill(e, [e.mat EXCEPT ![currField] = IndexOf(fldValue)])

\* currCalc is a pair of fields: calculate the field.
CalculatedField(e, currSearch) ==
  LET currField == currSearch.field
      currCalc  == currSearch.calc
  IN  IF ~({currField, currCalc[1], currCalc[2]} \subseteq DOMAIN e.mat)
      THEN Raise(e, "IndexError")
      ELSE IF e.mat[currField] # 0
      THEN Goto(e, e.cnt - 1, [e.mat EXCEPT ![currField] = 0])
      ELSE
        LET fldPos1 == e.mat[currCalc[1]]
            fldPos2 == e.mat[currCalc[2]]
        IN  IF ~({fldPos1, fldPos2} \subseteq DOMAIN glbArrNumbers)
            THEN Raise(e, "IndexError")
            ELSE
              LET fldValue == inMagicNumber - glbArrNumbers[fldPos1]
                                            - glbArrNumbers[fldPos2]
              IN  IF fldValue <= 0 THEN Goto(e, e.cnt - 1, e.mat)
                  ELSE IF ~InTable(fldValue) THEN Goto(e, e.cnt - 1, e.mat)
                  ELSE IF IndexOf(fldValue) \in Rng(e.mat)
                    THEN Goto(e, e.cnt - 1, e.mat)
                  ELSE AfterFill(e, [e.mat EXCEPT ![currField] = IndexOf(fldValue)])

\* The body of "while checkSearch < glbCntSearch <= glbMatrixSize" after the
\* iteration counter.
LoopBody(e) ==
  LET currSearch == glbSearchArr[e.cnt]
  IN  IF currSearch.calc = <<>>
      THEN EnumeratedField(e, currSearch)
      ELSE CalculatedField(e, currSearch)

\* ------------------------------------------------------ the checkpoint file
\* _parkerStateSave: json.dumps of {"glbCntSearch", "glbMatrix"} written
\* over the state file; nothing when no state file is configured.
_parkerStateSave(file, cnt, mat) ==
  IF ~cfgState THEN file
  ELSE [kind |-> "state", glbCntSearch |-> cnt, glbMatrix |-> mat]

\* A read that takes the grid of the file and leaves the cursor where
\* _parkerSearch put it: what C2 excludes.
_parkerStateReadGridOnly(file, cnt, mat) ==
  IF ~cfgState \/ file.kind = "absent"
  THEN [exc |-> "none", cnt |-> cnt, mat |-> mat]
  ELSE IF file.kind = "truncated"
  THEN [exc |-> "JSONDecodeError", cnt |-> cnt, mat |-> mat]
  ELSE IF file.kind = "state"
  THEN [exc |-> "none", cnt |-> cnt, mat |-> file.glbMatrix]
  ELSE [exc |-> "none", cnt |-> cnt, mat |-> mat]

\* _parkerStateRead: [exc, cnt, mat] from the current cursor and grid.
\* json.load raises on a file that is no complete JSON text; a file without
\* the "glbCntSearch" key is ignored; cursor and grid are taken as stored.
_parkerStateRead(file, cnt, mat) ==
  IF ~cfgState \/ file.kind = "absent"
  THEN [exc |-> "none", cnt |-> cnt, mat |-> mat]
  ELSE IF file.kind = "truncated"
  THEN [exc |-> "JSONDecodeError", cnt |-> cnt, mat |-> mat]
  ELSE IF file.kind = "state"
  THEN [exc |-> "none", cnt |-> file.glbCntSearch, mat |-> file.glbMatrix]
  ELSE [exc |-> "none", cnt |-> cnt, mat |-> mat]

\* An end of the search that leaves the state file on the disk: what C11
\* excludes.
LeaveStateFile(file) == file

\* "if os.path.isfile(glbStateFile): os.remove(glbStateFile)"
RemoveStateFile(file) == IF cfgState THEN NoFile ELSE file

NoShadow ==
  [on |-> FALSE, cnt |-> 0, mat |-> EmptyMatrix, found |-> FALSE,
   emitted |-> <<>>]

\* ------------------------------------------------ generic engine: actions
\* How a ParkerSquare call ends: by return (pc = "done") or by an exception
\* that leaves it (pc = "raised").
Return(value, how) ==
  /\ pc' = "done"
  /\ exc' = "none"
  /\ retval' = value
  /\ outcome' = how
  /\ returned' = returned \cup {<<how, value>>}

Raised(name) ==
  /\ pc' = "raised"
  /\ exc' = name
  /\ UNCHANGED <<retval, outcome, returned>>

\* _parkerInit of parkersquare.py: the grid is zeroed, the table size is
\* int((glbMagicNumber - 1 - 2 ** glbPower) ** (1 / glbPower)) and the table
\* and its reverse are filled.  A negative base gives a negative float for
\* power 1 and a complex number, which int() refuses, for a power above 1.
_parkerInit ==
  /\ pc = "start"
  /\ prog = "generic"
  /\ glbMatrix' = EmptyMatrix
  /\ LET base == inMagicNumber - 1 - Pow(2, glbPower)
         size == IF base < 0 THEN base ELSE FloatRootInt(base, glbPower)
     IN  IF base < 0 /\ glbPower > 1
         THEN /\ Raised("TypeError")
              /\ UNCHANGED <<glbArrSize, glbArrNumbers, glbArrValues, tableBuilt>>
         ELSE /\ glbArrSize' = size
              /\ glbArrNumbers' = [iCnt \in 0..size |-> Pow(iCnt, glbPower)]
              /\ glbArrValues' =
                   [iValue \in {Pow(iCnt, glbPower) : iCnt \in 0..size} |->
                      CHOOSE iCnt \in 0..size :
                        /\ Pow(iCnt, glbPower) = iValue
                        /\ \A j \in 0..size : Pow(j, glbPower) = iValue => j <= iCnt]
              /\ tableBuilt' = TRUE
              /\ pc' = "inited"
              /\ UNCHANGED <<exc, retval, outcome, returned>>
  /\ UNCHANGED <<walkVars, filterVars>>
  /\ UNCHANGED <<prog, inMagicNumber, glbPower, glbBruteForce, cfgState,
                 cfgSingle, glbCntSearch, found, iteration, emitted,
                 stateFile, resumed, shadow>>

\* _parkerSearch of parkersquare.py up to its loop: the divisibility check,
\* the centre pre-seeded for power 1, the three-square check for power 2,
\* the cursor set to checkSearch + 1 and the state file read.  ParkerSquare
\* drops _parkerSearch's result: it has no return statement.
_parkerSearchBegin ==
  /\ pc = "inited"
  /\ prog = "generic"
  /\ LET seeded == IF ~glbBruteForce /\ glbPower = 1
                   THEN [glbMatrix EXCEPT ![5] = inMagicNumber \div 3]
                   ELSE glbMatrix
         rd == _parkerStateRead(stateFile, checkSearch + 1, seeded)
     IN  IF inMagicNumber % 3 # 0
         THEN /\ Return("None", "Infeasible")
              /\ UNCHANGED <<glbMatrix, glbCntSearch, found, iteration>>
         ELSE IF glbPower = 2 /\ ThreeSquareLoops(inMagicNumber)
         THEN /\ pc' = "hang"
              /\ glbMatrix' = seeded
              /\ UNCHANGED <<glbCntSearch, found, iteration, exc, retval,
                             outcome, returned>>
         ELSE IF glbPower = 2 /\ ~ParkerThreeSquareCheck(inMagicNumber)
         THEN /\ Return("None", "Infeasible")
              /\ glbMatrix' = seeded
              /\ UNCHANGED <<glbCntSearch, found, iteration>>
         ELSE /\ found' = FALSE
              /\ iteration' = 0
              /\ glbCntSearch' = rd.cnt
              /\ glbMatrix' = rd.mat
              /\ IF rd.exc # "none"
                 THEN Raised(rd.exc)
                 ELSE /\ pc' = "search"
                      /\ UNCHANGED <<exc, retval, outcome, returned>>
  /\ UNCHANGED <<walkVars, filterVars>>
  /\ UNCHANGED <<prog, inMagicNumber, glbPower, glbBruteForce, cfgState,
                 cfgSingle, glbArrSize, glbArrNumbers, glbArrValues, emitted,
                 stateFile, tableBuilt, resumed, shadow>>

\* The run that was stopped, had it gone on from its last save.
ShadowStep(sh) ==
  IF sh.on /\ LoopCondition(sh.cnt)
  THEN LET r == LoopBody(sh)
       IN  [on |-> TRUE, cnt |-> r.cnt, mat |-> r.mat, found |-> r.found,
            emitted |-> r.emitted]
  ELSE sh

\* One iteration of the loop of _parkerSearch (parkersquare.py): the
\* iteration counter with the periodic save of the state at the top, then
\* the loop body.
SearchIteration ==
  /\ pc = "search"
  /\ prog = "generic"
  /\ LoopCondition(glbCntSearch)
  /\ LET save == iteration + 1 > SaveInterval
         r == LoopBody([cnt |-> glbCntSearch, mat |-> glbMatrix,
                        found |-> found, emitted |-> emitted])
     IN  /\ iteration' = IF save THEN 0 ELSE iteration + 1
         /\ stateFile' = IF save
                         THEN _parkerStateSave(stateFile, glbCntSearch, glbMatrix)
                         ELSE stateFile
         /\ shadow' = IF shadow.on THEN ShadowStep(shadow)
                      ELSE IF save /\ cfgState
                      THEN [on |-> FALSE, cnt |-> glbCntSearch,
                            mat |-> glbMatrix, found |-> found,
                            emitted |-> <<>>]
                      ELSE shadow
         /\ glbCntSearch' = r.cnt
         /\ glbMatrix' = r.mat
         /\ found' = r.found
         /\ emitted' = r.emitted
         /\ IF r.exc # "none"
            THEN Raised(r.exc)
            ELSE UNCHANGED <<pc, exc, retval, outcome, returned>>
  /\ UNCHANGED <<walkVars, filterVars>>
  /\ UNCHANGED <<prog, inMagicNumber, glbPower, glbBruteForce, cfgState,
                 cfgSingle, glbArrSize, glbArrNumbers, glbArrValues,
                 tableBuilt, resumed>>

\* _parkerSearch of parkersquare.py after its loop: the state file is
\* removed and the call returns.
SearchFinish ==
  /\ pc = "search"
  /\ prog = "generic"
  /\ ~LoopCondition(glbCntSearch)
  /\ stateFile' = RemoveStateFile(stateFile)
  /\ Return("None", IF found THEN "Found" ELSE "NotFound")
  /\ UNCHANGED <<walkVars, filterVars>>
  /\ UNCHANGED <<prog, inMagicNumber, glbPower, glbBruteForce, cfgState,
                 cfgSingle, glbArrSize, glbArrNumbers, glbArrValues,
                 glbMatrix, glbCntSearch, found, iteration, emitted,
                 tableBuilt, resumed, shadow>>

\* -------------------------------------------- dual-square engine: actions
\* _parkerInit of parkersquare2.py: the three pre-filters, in order.
_parkerInit2 ==
  /\ pc = "start"
  /\ prog = "dual"
  /\ IF inMagicNumber % 3 # 0
     THEN Return("False", "Infeasible")
     ELSE IF ThreeSquareLoops(inMagicNumber)
     THEN /\ pc' = "hang"
          /\ UNCHANGED <<exc, retval, outcome, returned>>
     ELSE IF ~ParkerThreeSquareCheck(inMagicNumber)
     THEN Return("False", "Infeasible")
     ELSE IF ~ParkerIsSquare(inMagicNumber \div 3)
     THEN Return("False", "Infeasible")
     ELSE /\ pc' = "inited"
          /\ UNCHANGED <<exc, retval, outcome, returned>>
  /\ UNCHANGED <<walkVars, filterVars>>
  /\ UNCHANGED <<prog, inMagicNumber, glbPower, glbBruteForce, cfgState,
                 cfgSingle, glbArrSize, glbArrNumbers, glbArrValues,
                 glbMatrix, glbCntSearch, found, iteration, emitted,
                 stateFile, tableBuilt, resumed, shadow>>

\* The loop of _parkerDualSquares: arr is glbArrNumbers as a sequence
\* (arr[k] is the entry of index k - 1).  "while xSquare < x5" runs xCount
\* through xCount + 1 .. LastCount, the first count whose square is not
\* below x5; each count whose counter square passes ParkerIsSquare and
\* differs from its square appends the two, in the order of the counts.
LastCount(x5) ==
  CHOOSE k \in 0..Max2(x5, 1) : k * k >= x5 /\ \A j \in 0..(k - 1) : j * j < x5

RECURSIVE PairsInOrder(_, _)
PairsInOrder(counts, xMiddleNumber) ==
  IF counts = {} THEN <<>>
  ELSE LET k == CHOOSE c \in counts : \A d \in counts : c <= d
       IN  <<k * k, xMiddleNumber - k * k>>
             \o PairsInOrder(counts \ {k}, xMiddleNumber)

\* A loop that keeps the pair of two equal squares as well, the centre
\* twice: what C33 excludes.
DualLoopKeepsEqual(xCount, xSquare, x5, xMiddleNumber, arr) ==
  IF ~(xSquare < x5) THEN arr
  ELSE arr \o PairsInOrder(
         {k \in (xCount + 1)..LastCount(x5) :
            ParkerIsSquare(xMiddleNumber - k * k)},
         xMiddleNumber)

DualLoop(xCount, xSquare, x5, xMiddleNumber, arr) ==
  IF ~(xSquare < x5) THEN arr
  ELSE arr \o PairsInOrder(
         {k \in (xCount + 1)..LastCount(x5) :
            /\ ParkerIsSquare(xMiddleNumber - k * k)
            /\ k * k # xMiddleNumber - k * k},
         xMiddleNumber)

\* A Python list given as a sequence, as a function over 0..len-1.
ListOf(arr) == [k \in 0..(Len(arr) - 1) |-> arr[k + 1]]

\* _parkerDualSquares: the table of pairs of squares around the centre;
\* False when len(glbArrNumbers) < 8, else the centre is appended, the first
\* eight entries are put in the grid and printed.
_parkerDualSquares ==
  /\ pc = "inited"
  /\ prog = "dual"
  /\ LET x5 == inMagicNumber \div 3
         xMiddleNumber == inMagicNumber - x5
         pairs == DualLoop(0, 0, x5, xMiddleNumber, <<0>>)
         table == ListOf(Append(pairs, x5))
         first == [i \in 0..glbMatrixSize |->
                     CASE i = 5 -> Len(pairs)
                       [] i = 1 -> 1
                       [] i = 9 -> 2
                       [] i = 3 -> 3
                       [] i = 7 -> 4
                       [] i = 8 -> 5
                       [] i = 2 -> 6
                       [] i = 6 -> 7
                       [] i = 4 -> 8
                       [] OTHER -> 0]
     IN  /\ tableBuilt' = TRUE
         /\ IF Len(pairs) < 8
            THEN /\ glbArrNumbers' = ListOf(pairs)
                 /\ Return("False", "Infeasible")
                 /\ UNCHANGED glbMatrix
            ELSE /\ glbArrNumbers' = table
                 /\ glbMatrix' = first
                 /\ LET kinds == {ParkerIntegerSqrt(table[first[i]]).kind : i \in 1..9}
                    IN  IF "ZeroDivisionError" \in kinds
                        THEN Raised("ZeroDivisionError")
                        ELSE IF "None" \in kinds
                        THEN Raised("TypeError")
                        ELSE /\ pc' = "tabled"
                             /\ UNCHANGED <<exc, retval, outcome, returned>>
  /\ UNCHANGED <<walkVars, filterVars>>
  /\ UNCHANGED <<prog, inMagicNumber, glbPower, glbBruteForce, cfgState,
                 cfgSingle, glbArrSize, glbArrValues, glbCntSearch, found,
                 iteration, emitted, stateFile, resumed, shadow>>

\* _parkerSearch of parkersquare2.py up to its loop: the grid is zeroed
\* and the cursor set to 1.
_parkerSearchBegin2 ==
  /\ pc = "tabled"
  /\ prog = "dual"
  /\ glbMatrix' = EmptyMatrix
  /\ found' = FALSE
  /\ glbCntSearch' = checkSearch + 1
  /\ pc' = "search"
  /\ UNCHANGED <<walkVars, filterVars>>
  /\ UNCHANGED <<prog, inMagicNumber, glbPower, glbBruteForce, cfgState,
                 cfgSingle, glbArrSize, glbArrNumbers, glbArrValues,
                 iteration, exc, retval, outcome, emitted, stateFile,
                 tableBuilt, resumed, shadow, returned>>

\* One iteration of the loop of _parkerSearch (parkersquare2.py): the loop
\* body only, this engine keeps no iteration counter and saves no state.
SearchIteration2 ==
  /\ pc = "search"
  /\ prog = "dual"
  /\ LoopCondition(glbCntSearch)
  /\ LET r == LoopBody([cnt |-> glbCntSearch, mat |-> glbMatrix,
                        found |-> found, emitted |-> emitted])
     IN  /\ glbCntSearch' = r.cnt
         /\ glbMatrix' = r.mat
         /\ found' = r.found
         /\ emitted' = r.emitted
         /\ IF r.exc # "none"
            THEN Raised(r.exc)
            ELSE UNCHANGED <<pc, exc, retval, outcome, returned>>
  /\ UNCHANGED <<walkVars, filterVars>>
  /\ UNCHANGED <<prog, inMagicNumber, glbPower, glbBruteForce, cfgState,
                 cfgSingle, glbArrSize, glbArrNumbers, glbArrValues,
                 iteration, stateFile, tableBuilt, resumed, shadow>>

\* _parkerSearch of parkersquare2.py after its loop: "return found", which
\* ParkerSquare returns.
SearchFinish2 ==
  /\ pc = "search"
  /\ prog = "dual"
  /\ ~LoopCondition(glbCntSearch)
  /\ Return(IF found THEN "True" ELSE "False",
            IF found THEN "Found" ELSE "NotFound")
  /\ UNCHANGED <<walkVars, filterVars>>
  /\ UNCHANGED <<prog, inMagicNumber, glbPower, glbBruteForce, cfgState,
                 cfgSingle, glbArrSize, glbArrNumbers, glbArrValues,
                 glbMatrix, glbCntSearch, found, iteration, emitted,
                 stateFile, tableBuilt, resumed, shadow>>

\* ------------------------------------------------- interrupts and restarts
\* KeyboardInterrupt while the search runs.  ParkerSquare of parkersquare.py
\* catches it and raises it again when processes == "1", and returns
\* otherwise; parkersquare2.py's ParkerSquare has no handler.  Neither
\* writes the state file.
Interrupt ==
  /\ pc = "search"
  /\ IF prog = "dual" \/ cfgSingle
     THEN Raised("KeyboardInterrupt")
     ELSE /\ pc' = "done"
          /\ exc' = "none"
          /\ retval' = "None"
          /\ outcome' = "Interrupted"
          /\ UNCHANGED returned
  /\ UNCHANGED <<walkVars, filterVars>>
  /\ UNCHANGED <<prog, inMagicNumber, glbPower, glbBruteForce, cfgState,
                 cfgSingle, glbArrSize, glbArrNumbers, glbArrValues,
                 glbMatrix, glbCntSearch, found, iteration, emitted,
                 stateFile, tableBuilt, resumed, shadow>>

\* What a process holds when ParkerSquare is entered: the locals as the
\* function's first lines set them.
FreshMemory ==
  /\ glbArrSize' = InitialSize
  /\ glbArrNumbers' = InitialNumbers
  /\ glbArrValues' = <<>>
  /\ glbMatrix' = EmptyMatrix
  /\ glbCntSearch' = 0
  /\ found' = FALSE
  /\ iteration' = 0
  /\ emitted' = <<>>
  /\ tableBuilt' = FALSE
  /\ exc' = "none"
  /\ retval' = "none"
  /\ outcome' = "none"

\* The process is killed while the search of its first number runs: its
\* memory is lost, the state file stays as last written.
Kill ==
  /\ pc = "search"
  /\ prog = "generic"
  /\ cfgState
  /\ ~resumed
  /\ returned = {}
  /\ pc' = "killed"
  /\ FreshMemory
  /\ UNCHANGED <<walkVars, filterVars>>
  /\ UNCHANGED <<prog, inMagicNumber, glbPower, glbBruteForce, cfgState,
                 cfgSingle, stateFile, resumed, shadow, returned>>

\* The process is killed inside _parkerStateSave, between open(.., "w"),
\* which empties the file, and the end of write().
KillDuringSave ==
  /\ pc = "search"
  /\ prog = "generic"
  /\ cfgState
  /\ ~resumed
  /\ returned = {}
  /\ LoopCondition(glbCntSearch)
  /\ iteration + 1 > SaveInterval
  /\ stateFile' = TruncatedFile
  /\ pc' = "killed"
  /\ FreshMemory
  /\ UNCHANGED <<walkVars, filterVars>>
  /\ UNCHANGED <<prog, inMagicNumber, glbPower, glbBruteForce, cfgState,
                 cfgSingle, resumed, shadow, returned>>

\* The program is started again with the same arguments: ParkerSquare is
\* entered for the same number by a new process.  From here on the run that
\* was stopped is followed from its last save, when the file holds one.
Restart ==
  /\ pc = "killed"
  /\ pc' = "start"
  /\ resumed' = TRUE
  /\ shadow' = [shadow EXCEPT !.on = (stateFile.kind = "state")]
  /\ UNCHANGED <<walkVars, filterVars>>
  /\ UNCHANGED <<prog, inMagicNumber, glbPower, glbBruteForce, cfgState,
                 cfgSingle, glbArrSize, glbArrNumbers, glbArrValues,
                 glbMatrix, glbCntSearch, found, iteration, exc, retval,
                 outcome, emitted, stateFile, tableBuilt, returned>>

\* The caller's loop over the magic numbers (MainLoop) enters ParkerSquare
\* for a later number of its list, after the call for the current one has
\* returned.  Each number has a state file of its own.
NextUnit ==
  /\ pc = "done"
  /\ ~resumed
  /\ outcome # "Interrupted"
  /\ \E number \in (IF prog = "dual" THEN DualMagic ELSE 0..MaxMagic) :
       /\ number > inMagicNumber
       /\ inMagicNumber' = number
  /\ pc' = "start"
  /\ FreshMemory
  /\ stateFile' = NoFile
  /\ UNCHANGED <<walkVars, filterVars>>
  /\ UNCHANGED <<prog, glbPower, glbBruteForce, cfgState, cfgSingle,
                 resumed, shadow, returned>>

\* ------------------------------------------------------- walking ranges
\* Largest first and last number of a range given on the command line.
MaxRangeStart == 4
MaxRangeEnd == 16
\* Largest number of processes (-n).
MaxProcesses == 2
\* WalkRanges saves its position every 10000000 candidates
\* (src/parkersquare2.py:858); the model keeps the code's comparison and
\* scales the interval to ranges of a few candidates.
WalkSaveInterval == 2

\* A start that is left where the command line put it: what C5 excludes.
StartAsGiven(startNum) == startNum

\* "while startNum % 3 != 0: startNum += 1"
RECURSIVE NormaliseStart(_)
NormaliseStart(startNum) ==
  IF startNum % 3 # 0 THEN NormaliseStart(startNum + 1) ELSE startNum

\* state_main.json and MainLoop's state dictionary.  The list of single
\* magic numbers is empty here, "currentNumber" stays 0 and is left out;
\* hasProcs is FALSE for "currprocs": None.
MainStateOf(kind, range, cnt, has, procs) ==
  [kind |-> kind, currentRange |-> range, currentCntRange |-> cnt,
   hasProcs |-> has, currprocs |-> procs]

NoMainState == MainStateOf("none", -1, -1, FALSE, <<>>)

NoMainFile == MainStateOf("absent", -1, -1, FALSE, <<>>)

\* The dictionary StateCreateLoad makes and writes when there is no file.
NewMainState == MainStateOf("state", -1, -1, FALSE, <<>>)

\* WalkRanges' state file.
RangeFileOf(kind, startNum, endNum, walk) ==
  [kind |-> kind, startNum |-> startNum, endNum |-> endNum,
   iRangeWalk |-> walk]

NoRangeFile == RangeFileOf("absent", 0, 0, 0)

\* A process slot: None, or the process with its number.
NoProc == [busy |-> FALSE, number |-> 0, alive |-> FALSE]

ProcOf(number) == [busy |-> TRUE, number |-> number, alive |-> TRUE]

\* [None] * nrProcesses
EmptyProcArr == [k \in 0..(nrProcesses - 1) |-> NoProc]

\* The numbers of the slots in use, in slot order (arrCurr).
RECURSIVE ArrCurr(_, _)
ArrCurr(arr, k) ==
  IF k \notin DOMAIN arr THEN <<>>
  ELSE IF arr[k].busy THEN <<arr[k].number>> \o ArrCurr(arr, k + 1)
  ELSE ArrCurr(arr, k + 1)

\* _writeCurrentState: the dictionary with the positions and the numbers
\* in the slots, which StateWrite writes; nothing for state None.
_writeCurrentState(st, arr, range, walk) ==
  IF st.kind = "none" THEN st
  ELSE MainStateOf("state", range, walk, TRUE, ArrCurr(arr, 0))

\* StartThread's pass over the slots: a slot whose process has ended is
\* emptied, and the slot taken is the first that was None before the pass.
CleanedProcArr(arr) ==
  [k \in DOMAIN arr |-> IF arr[k].busy /\ ~arr[k].alive THEN NoProc ELSE arr[k]]

FreeSlots(arr) == {k \in DOMAIN arr : ~arr[k].busy}

\* A choice of slot that takes the first slot of the pool whatever it
\* holds: what C21 excludes.
FirstSlot(arr) == CHOOSE k \in DOMAIN arr : \A j \in DOMAIN arr : k <= j

FirstFree(arr) == CHOOSE k \in FreeSlots(arr) : \A j \in FreeSlots(arr) : k <= j

\* The range MainLoop or WalkRanges is on; endNum is elem['end'] + 1.
CurrentRange == magicRanges[iCurrRange + 1]

endNum == CurrentRange.end + 1

Candidate(number) == [range |-> iCurrRange, number |-> number]

\* StateCreateLoad: None without the state option, the file's dictionary
\* when state_main.json exists (json.load raises on a file cut short, and
\* MainStart catches nothing), else a new dictionary, written.
StateCreateLoad ==
  /\ wpc = "main"
  /\ wProg = "generic"
  /\ IF ~wState
     THEN /\ mainState' = NoMainState
          /\ wpc' = "loop"
          /\ UNCHANGED <<mainFile, wexc>>
     ELSE IF mainFile.kind = "truncated"
     THEN /\ wpc' = "raised"
          /\ wexc' = "JSONDecodeError"
          /\ UNCHANGED <<mainFile, mainState>>
     ELSE IF mainFile.kind = "state"
     THEN /\ mainState' = mainFile
          /\ wpc' = "loop"
          /\ UNCHANGED <<mainFile, wexc>>
     ELSE /\ mainState' = NewMainState
          /\ mainFile' = NewMainState
          /\ wpc' = "loop"
          /\ UNCHANGED wexc
  /\ procArr' = EmptyProcArr
  /\ iCurrRange' = 0
  /\ iRangeWalk' = 0
  /\ UNCHANGED <<engineVars, filterVars>>
  /\ UNCHANGED <<wProg, magicRanges, nrProcesses, wState, iIteration,
                 rangeFile, tested, testedBefore, restarted, wResumed,
                 wRestored>>

\* MainLoop up to its loops: the numbers of "currprocs" are started again
\* (every slot is free, so StartThread takes the slots in order, and runs
\* ParkerSquare itself for one process), then the positions are restored.
MainLoopBegin ==
  /\ wpc = "loop"
  /\ wProg = "generic"
  /\ LET again == IF mainState.kind = "state" /\ mainState.hasProcs
                  THEN mainState.currprocs ELSE <<>>
         range == IF mainState.kind = "state" /\ mainState.currentRange >= 0
                  THEN mainState.currentRange ELSE 0
         walk == IF /\ mainState.kind = "state"
                    /\ mainState.currentRange >= 0
                    /\ mainState.currentCntRange > 0
                 THEN mainState.currentCntRange ELSE 0
     IN  /\ restarted' = again
         /\ procArr' = IF nrProcesses <= 1 THEN procArr
                       ELSE [k \in DOMAIN procArr |->
                               IF k + 1 <= Len(again) THEN ProcOf(again[k + 1])
                               ELSE NoProc]
         /\ iCurrRange' = range
         /\ iRangeWalk' = walk
         /\ wRestored' = walk
  /\ wpc' = "range"
  /\ UNCHANGED <<engineVars, filterVars>>
  /\ UNCHANGED <<wProg, magicRanges, nrProcesses, wState, wexc, iIteration,
                 mainState, mainFile, rangeFile, tested, testedBefore,
                 wResumed>>

\* "while iCurrRange < len( magicRanges )": the start of the range is
\* moved to a multiple of 3 and the walk begins there or at the restored
\* position.
RangeBegin ==
  /\ wpc = "range"
  /\ wProg = "generic"
  /\ iCurrRange < Len(magicRanges)
  /\ iRangeWalk' = Max2(NormaliseStart(CurrentRange.start), iRangeWalk)
  /\ wpc' = "walk"
  /\ UNCHANGED <<engineVars, filterVars>>
  /\ UNCHANGED <<wProg, magicRanges, nrProcesses, wState, wexc, iCurrRange,
                 iIteration, procArr, mainState, mainFile, rangeFile, tested,
                 testedBefore, restarted, wResumed, wRestored>>

\* "while iRangeWalk < endNum": StartThread for the number.  With one
\* process ParkerSquare runs here; else a free slot takes a new process, or
\* there is none, the state is written and the loop tries again.
RangeStep ==
  /\ wpc = "walk"
  /\ wProg = "generic"
  /\ iRangeWalk < endNum
  /\ IF nrProcesses <= 1
     THEN /\ tested' = Append(tested, Candidate(iRangeWalk))
          /\ iRangeWalk' = iRangeWalk + 3
          /\ UNCHANGED <<procArr, mainState, mainFile>>
     ELSE IF FreeSlots(procArr) # {}
     THEN /\ procArr' = [CleanedProcArr(procArr) EXCEPT
                           ![FirstFree(procArr)] = ProcOf(iRangeWalk)]
          /\ tested' = Append(tested, Candidate(iRangeWalk))
          /\ iRangeWalk' = iRangeWalk + 3
          /\ UNCHANGED <<mainState, mainFile>>
     ELSE /\ procArr' = CleanedProcArr(procArr)
          /\ mainState' = _writeCurrentState(mainState, procArr',
                                             iCurrRange, iRangeWalk)
          /\ mainFile' = IF mainState.kind = "none" THEN mainFile
                         ELSE mainState'
          /\ UNCHANGED <<tested, iRangeWalk>>
  /\ UNCHANGED <<engineVars, filterVars>>
  /\ UNCHANGED <<wProg, magicRanges, nrProcesses, wState, wpc, wexc,
                 iCurrRange, iIteration, rangeFile, testedBefore, restarted,
                 wResumed, wRestored>>

\* The range is walked: "iRangeWalk = 0; iCurrRange += 1".
RangeEnd ==
  /\ wpc = "walk"
  /\ wProg = "generic"
  /\ ~(iRangeWalk < endNum)
  /\ iRangeWalk' = 0
  /\ iCurrRange' = iCurrRange + 1
  /\ wpc' = "range"
  /\ UNCHANGED <<engineVars, filterVars>>
  /\ UNCHANGED <<wProg, magicRanges, nrProcesses, wState, wexc, iIteration,
                 procArr, mainState, mainFile, rangeFile, tested,
                 testedBefore, restarted, wResumed, wRestored>>

\* After the ranges: with more than one process the state is written while
\* a child is alive; then the state file is removed.
WaitProcesses ==
  /\ wpc = "range"
  /\ wProg = "generic"
  /\ ~(iCurrRange < Len(magicRanges))
  /\ IF nrProcesses > 1 /\ \E k \in DOMAIN procArr : procArr[k].alive
     THEN /\ mainState' = _writeCurrentState(mainState, procArr,
                                             iCurrRange, iRangeWalk)
          /\ mainFile' = IF mainState.kind = "none" THEN mainFile
                         ELSE mainState'
          /\ UNCHANGED wpc
     ELSE /\ mainFile' = IF mainState.kind = "none" THEN mainFile
                         ELSE NoMainFile
          /\ wpc' = "done"
          /\ UNCHANGED mainState
  /\ UNCHANGED <<engineVars, filterVars>>
  /\ UNCHANGED <<wProg, magicRanges, nrProcesses, wState, wexc, iCurrRange,
                 iRangeWalk, iIteration, procArr, rangeFile, tested,
                 testedBefore, restarted, wResumed, wRestored>>

\* A child process ends: ParkerSquare has returned in it.
ProcExit ==
  /\ wpc \in {"range", "walk"}
  /\ wProg = "generic"
  /\ \E k \in DOMAIN procArr :
       /\ procArr[k].alive
       /\ procArr' = [procArr EXCEPT ![k].alive = FALSE]
  /\ UNCHANGED <<engineVars, filterVars>>
  /\ UNCHANGED <<wProg, magicRanges, nrProcesses, wState, wpc, wexc,
                 iCurrRange, iRangeWalk, iIteration, mainState, mainFile,
                 rangeFile, tested, testedBefore, restarted, wResumed,
                 wRestored>>

\* WalkRanges of parkersquare2.py up to its loop: the state file is read
\* (json.load raises on a file cut short, and only KeyboardInterrupt is
\* caught), the start is moved to a multiple of 3 and the walk begins there
\* or at the position read.
WalkRangesBegin ==
  /\ wpc = "wbegin"
  /\ wProg = "dual"
  /\ LET read == IF wState /\ rangeFile.kind = "state"
                 THEN rangeFile.iRangeWalk ELSE 0
     IN  IF wState /\ rangeFile.kind = "truncated"
         THEN /\ wpc' = "raised"
              /\ wexc' = "JSONDecodeError"
              /\ UNCHANGED <<iRangeWalk, iIteration, wRestored>>
         ELSE /\ iRangeWalk' = Max2(NormaliseStart(CurrentRange.start), read)
              /\ iIteration' = 0
              /\ wRestored' = read
              /\ wpc' = "walk"
              /\ UNCHANGED wexc
  /\ UNCHANGED <<engineVars, filterVars>>
  /\ UNCHANGED <<wProg, magicRanges, nrProcesses, wState, iCurrRange,
                 procArr, mainState, mainFile, rangeFile, tested,
                 testedBefore, restarted, wResumed>>

\* One pass of "while iRangeWalk < endNum": the position is saved when
\* more than the interval of candidates went by since the last save, then
\* ParkerSquare runs for the number.  The file holds the start as moved.
WalkRangesStep ==
  /\ wpc = "walk"
  /\ wProg = "dual"
  /\ iRangeWalk < endNum
  /\ LET save == iIteration + 1 > WalkSaveInterval
     IN  /\ iIteration' = IF save THEN 1 ELSE iIteration + 1
         /\ rangeFile' = IF save /\ wState
                         THEN RangeFileOf("state",
                                NormaliseStart(CurrentRange.start), endNum,
                                iRangeWalk)
                         ELSE rangeFile
  /\ tested' = Append(tested, Candidate(iRangeWalk))
  /\ iRangeWalk' = iRangeWalk + 3
  /\ UNCHANGED <<engineVars, filterVars>>
  /\ UNCHANGED <<wProg, magicRanges, nrProcesses, wState, wpc, wexc,
                 iCurrRange, procArr, mainState, mainFile, testedBefore,
                 restarted, wResumed, wRestored>>

\* WalkRanges after its loop: the state file is removed.
WalkRangesEnd ==
  /\ wpc = "walk"
  /\ wProg = "dual"
  /\ ~(iRangeWalk < endNum)
  /\ rangeFile' = IF wState THEN NoRangeFile ELSE rangeFile
  /\ wpc' = "done"
  /\ UNCHANGED <<engineVars, filterVars>>
  /\ UNCHANGED <<wProg, magicRanges, nrProcesses, wState, wexc, iCurrRange,
                 iRangeWalk, iIteration, procArr, mainState, mainFile,
                 tested, testedBefore, restarted, wResumed, wRestored>>

\* The walking process is gone: what it held in memory.
ProcessGone ==
  /\ iCurrRange' = 0
  /\ iRangeWalk' = 0
  /\ iIteration' = 0
  /\ procArr' = EmptyProcArr
  /\ mainState' = NoMainState

\* KeyboardInterrupt while a range is walked.  MainLoop prints and ends;
\* WalkRanges raises it again for processes == "1" and returns otherwise.
\* No state is written on the way.
WalkInterrupt ==
  /\ wpc \in {"range", "walk"}
  /\ IF wProg = "dual" /\ nrProcesses = 1
     THEN /\ wpc' = "raised"
          /\ wexc' = "KeyboardInterrupt"
     ELSE /\ wpc' = "ended"
          /\ UNCHANGED wexc
  /\ ProcessGone
  /\ UNCHANGED <<engineVars, filterVars>>
  /\ UNCHANGED <<wProg, magicRanges, nrProcesses, wState, mainFile,
                 rangeFile, tested, testedBefore, restarted, wResumed,
                 wRestored>>

\* The table of a candidate cannot be made: "[0] * (glbArrSize + 1)" raises
\* MemoryError, which _parkerInit prints and raises again and ParkerSquare
\* lets through.  With one process the call runs inside MainLoop, whose
\* "except Exception" prints it and ends the loops; in a child process it
\* ends the child.  Whether memory suffices is the environment's choice.
TableFailure ==
  /\ wProg = "generic"
  /\ IF nrProcesses <= 1
     THEN /\ wpc = "walk"
          /\ iRangeWalk < endNum
          /\ tested' = Append(tested, Candidate(iRangeWalk))
          /\ wexc' = "MemoryError"
          /\ wpc' = "ended"
          /\ ProcessGone
     ELSE /\ wpc \in {"range", "walk"}
          /\ \E k \in DOMAIN procArr :
               /\ procArr[k].alive
               /\ procArr' = [procArr EXCEPT ![k].alive = FALSE]
          /\ UNCHANGED <<tested, wexc, wpc, iCurrRange, iRangeWalk,
                         iIteration, mainState>>
  /\ UNCHANGED <<engineVars, filterVars>>
  /\ UNCHANGED <<wProg, magicRanges, nrProcesses, wState, mainFile,
                 rangeFile, testedBefore, restarted, wResumed, wRestored>>

\* The program is killed, its child processes with it.
WalkKill ==
  /\ wpc \in {"range", "walk"}
  /\ wpc' = "killed"
  /\ ProcessGone
  /\ UNCHANGED <<engineVars, filterVars>>
  /\ UNCHANGED <<wProg, magicRanges, nrProcesses, wState, wexc, mainFile,
                 rangeFile, tested, testedBefore, restarted, wResumed,
                 wRestored>>

\* The program is killed inside a write of its state file, between
\* open(.., "w"), which empties the file, and the end of write(): in
\* WalkRanges' _parkerStateSave, or in StateWrite when MainLoop found no
\* free slot.
WalkKillDuringSave ==
  /\ wpc = "walk"
  /\ wState
  /\ iRangeWalk < endNum
  /\ \/ /\ wProg = "dual"
        /\ iIteration + 1 > WalkSaveInterval
        /\ rangeFile' = RangeFileOf("truncated", 0, 0, 0)
        /\ UNCHANGED mainFile
     \/ /\ wProg = "generic"
        /\ nrProcesses > 1
        /\ FreeSlots(procArr) = {}
        /\ mainFile' = MainStateOf("truncated", -1, -1, FALSE, <<>>)
        /\ UNCHANGED rangeFile
  /\ wpc' = "killed"
  /\ ProcessGone
  /\ UNCHANGED <<engineVars, filterVars>>
  /\ UNCHANGED <<wProg, magicRanges, nrProcesses, wState, wexc, tested,
                 testedBefore, restarted, wResumed, wRestored>>

\* The program is started again with the same arguments, the state files
\* as they were left.
WalkRestart ==
  /\ wpc \in {"ended", "killed", "raised"}
  /\ ~wResumed
  /\ wResumed' = TRUE
  /\ wpc' = IF wProg = "generic" THEN "main" ELSE "wbegin"
  /\ wexc' = "none"
  /\ ProcessGone
  /\ testedBefore' = tested
  /\ tested' = <<>>
  /\ restarted' = <<>>
  /\ wRestored' = 0
  /\ UNCHANGED <<engineVars, filterVars>>
  /\ UNCHANGED <<wProg, magicRanges, nrProcesses, wState, mainFile,
                 rangeFile>>

\* No range is walked: the state of the walking variables while one
\* ParkerSquare call is followed.
WalkIdle ==
  /\ wProg = "none"
  /\ magicRanges = <<>>
  /\ nrProcesses = 1
  /\ wState = FALSE
  /\ wpc = "idle"
  /\ wexc = "none"
  /\ iCurrRange = 0
  /\ iRangeWalk = 0
  /\ iIteration = 0
  /\ procArr = <<>>
  /\ mainState = NoMainState
  /\ mainFile = NoMainFile
  /\ rangeFile = NoRangeFile
  /\ tested = <<>>
  /\ testedBefore = <<>>
  /\ restarted = <<>>
  /\ wResumed = FALSE
  /\ wRestored = 0

\* The engine's variables while the walk is followed: a ParkerSquare call
\* is the candidate handed to it.
EngineIdle ==
  /\ prog = "none"
  /\ inMagicNumber = 0
  /\ glbPower = 1
  /\ glbBruteForce = FALSE
  /\ cfgState = FALSE
  /\ cfgSingle = TRUE
  /\ glbArrSize = InitialSize
  /\ glbArrNumbers = InitialNumbers
  /\ glbArrValues = <<>>
  /\ glbMatrix = EmptyMatrix
  /\ glbCntSearch = 0
  /\ found = FALSE
  /\ iteration = 0
  /\ pc = "idle"
  /\ exc = "none"
  /\ retval = "none"
  /\ outcome = "none"
  /\ emitted = <<>>
  /\ stateFile = NoFile
  /\ tableBuilt = FALSE
  /\ resumed = FALSE
  /\ shadow = NoShadow
  /\ returned = {}

\* The ranges of the command line: one range, or two for MainLoop.
\* ReadConfiguration refuses a range whose end is below its start.
Ranges ==
  {r \in [start : 0..MaxRangeStart, end : 0..MaxRangeEnd] : r.start <= r.end}

InitWalk ==
  /\ EngineIdle
  /\ FilterIdle
  /\ wProg \in {"generic", "dual"}
  /\ nrProcesses \in 1..MaxProcesses
  /\ wState \in BOOLEAN
  /\ \E r \in Ranges :
       \/ magicRanges = <<r>>
       \/ /\ wProg = "generic"
          /\ r.start = MaxRangeStart
          /\ magicRanges = <<[start |-> 1, end |-> 7], r>>
  /\ wpc = IF wProg = "generic" THEN "main" ELSE "wbegin"
  /\ wexc = "none"
  /\ iCurrRange = 0
  /\ iRangeWalk = 0
  /\ iIteration = 0
  /\ procArr = EmptyProcArr
  /\ mainState = NoMainState
  /\ mainFile = NoMainFile
  /\ rangeFile = NoRangeFile
  /\ tested = <<>>
  /\ testedBefore = <<>>
  /\ restarted = <<>>
  /\ wResumed = FALSE
  /\ wRestored = 0

NextWalk ==
  \/ StateCreateLoad
  \/ MainLoopBegin
  \/ RangeBegin
  \/ RangeStep
  \/ RangeEnd
  \/ WaitProcesses
  \/ ProcExit
  \/ WalkRangesBegin
  \/ WalkRangesStep
  \/ WalkRangesEnd
  \/ WalkInterrupt
  \/ TableFailure
  \/ WalkKill
  \/ WalkKillDuringSave
  \/ WalkRestart

\* ----------------------------------------------------------- specification
\* One process of either program about to enter ParkerSquare, no state file
\* on disk.  parkersquare2.py's engine has no power, brute-force or state
\* option.
Init ==
  /\ WalkIdle
  /\ FilterIdle
  /\ prog \in {"generic", "dual"}
  /\ IF prog = "generic"
     THEN /\ inMagicNumber \in 0..MaxMagic
          /\ glbPower \in 1..MaxPower
          /\ glbBruteForce \in BOOLEAN
          /\ cfgState \in BOOLEAN
          /\ cfgSingle \in BOOLEAN
     ELSE /\ inMagicNumber \in DualMagic
          /\ glbPower = 2
          /\ glbBruteForce = FALSE
          /\ cfgState = FALSE
          /\ cfgSingle = TRUE
  /\ glbArrSize = InitialSize
  /\ glbArrNumbers = InitialNumbers
  /\ glbArrValues = <<>>
  /\ glbMatrix = EmptyMatrix
  /\ glbCntSearch = 0
  /\ found = FALSE
  /\ iteration = 0
  /\ pc = "start"
  /\ exc = "none"
  /\ retval = "none"
  /\ outcome = "none"
  /\ emitted = <<>>
  /\ stateFile = NoFile
  /\ tableBuilt = FALSE
  /\ resumed = FALSE
  /\ shadow = NoShadow
  /\ returned = {}

Next ==
  \/ _parkerInit
  \/ _parkerSearchBegin
  \/ SearchIteration
  \/ SearchFinish
  \/ _parkerInit2
  \/ _parkerDualSquares
  \/ _parkerSearchBegin2
  \/ SearchIteration2
  \/ SearchFinish2
  \/ Interrupt
  \/ Kill
  \/ KillDuringSave
  \/ Restart
  \/ NextUnit

vars == <<engineVars, walkVars, filterVars>>

Spec == Init /\ [][Next]_vars

SpecWalk == InitWalk /\ [][NextWalk]_vars

\* Either of the two: one ParkerSquare call, or one walk over the ranges.
InitAll == Init \/ InitWalk

NextAll == Next \/ NextWalk

SpecAll == InitAll /\ [][NextAll]_vars

\* ------------------------------------- a state file found on the disk
\* JSON that holds no "glbCntSearch" key.
NoKeyFile == [kind |-> "nokey", glbCntSearch |-> 0, glbMatrix |-> EmptyMatrix]

StateFileOf(cnt, mat) ==
  [kind |-> "state", glbCntSearch |-> cnt, glbMatrix |-> mat]

\* A Python list of ten numbers as a grid.
GridOf(list) == [i \in 0..(Len(list) - 1) |-> list[i + 1]]

\* State files the engine is started on: none, one cut short, one without
\* the key, one as written two steps into the brute-force order, and files
\* with a grid of nine entries, a cursor of 0 and of 12, an index that no
\* table of these magic numbers has, and indices that occur twice.
SampleFiles ==
  { NoFile, TruncatedFile, NoKeyFile,
    StateFileOf(3, GridOf(<<0, 1, 0, 2, 0, 0, 0, 0, 0, 0>>)),
    StateFileOf(1, GridOf(<<0, 0, 0, 0, 0, 0, 0, 0, 0>>)),
    StateFileOf(0, EmptyMatrix),
    StateFileOf(12, EmptyMatrix),
    StateFileOf(3, GridOf(<<0, 99, 0, 1, 0, 0, 0, 0, 0, 0>>)),
    StateFileOf(9, GridOf(<<0, 7, 4, 4, 2, 5, 8, 6, 6, 0>>)) }

\* parkersquare.py entered with the state option on and any of the sample
\* files under the name state_<number>.txt.
InitAnyFile ==
  /\ WalkIdle
  /\ FilterIdle
  /\ prog = "generic"
  /\ inMagicNumber \in 0..MaxMagic
  /\ glbPower \in 1..MaxPower
  /\ glbBruteForce \in BOOLEAN
  /\ cfgState = TRUE
  /\ cfgSingle = TRUE
  /\ stateFile \in SampleFiles
  /\ glbArrSize = InitialSize
  /\ glbArrNumbers = InitialNumbers
  /\ glbArrValues = <<>>
  /\ glbMatrix = EmptyMatrix
  /\ glbCntSearch = 0
  /\ found = FALSE
  /\ iteration = 0
  /\ pc = "start"
  /\ exc = "none"
  /\ retval = "none"
  /\ outcome = "none"
  /\ emitted = <<>>
  /\ tableBuilt = FALSE
  /\ resumed = FALSE
  /\ shadow = NoShadow
  /\ returned = {}

NextAnyFile ==
  \/ _parkerInit
  \/ _parkerSearchBegin
  \/ SearchIteration
  \/ SearchFinish

SpecAnyFile == InitAnyFile /\ [][NextAnyFile]_vars

\* ------------------------------------------- searches that are left alone
\* Largest magic number of a search that runs to its end undisturbed, and
\* the largest that is searched by brute force.
MaxPlainMagic == 45
MaxBruteMagic == 21

\* parkersquare.py entered without the state option, by the optimised plans
\* or by brute force.
InitPlain ==
  /\ WalkIdle
  /\ FilterIdle
  /\ prog = "generic"
  /\ inMagicNumber \in 0..MaxPlainMagic
  /\ glbPower \in 1..MaxPower
  /\ glbBruteForce \in BOOLEAN
  /\ glbBruteForce => inMagicNumber <= MaxBruteMagic
  /\ cfgState = FALSE
  /\ cfgSingle = TRUE
  /\ glbArrSize = InitialSize
  /\ glbArrNumbers = InitialNumbers
  /\ glbArrValues = <<>>
  /\ glbMatrix = EmptyMatrix
  /\ glbCntSearch = 0
  /\ found = FALSE
  /\ iteration = 0
  /\ pc = "start"
  /\ exc = "none"
  /\ retval = "none"
  /\ outcome = "none"
  /\ emitted = <<>>
  /\ stateFile = NoFile
  /\ tableBuilt = FALSE
  /\ resumed = FALSE
  /\ shadow = NoShadow
  /\ returned = {}

NextPlain ==
  \/ _parkerInit
  \/ _parkerSearchBegin
  \/ SearchIteration
  \/ SearchFinish

SpecPlain == InitPlain /\ [][NextPlain]_vars

\* --------------------------------------- searches that are always continued
\* A call of either engine that is left alone, its search loop never held
\* up: inside the loop the process goes on with its next step.
InitSearch ==
  /\ Init
  /\ ~cfgState
  /\ cfgSingle

NextSearch ==
  \/ NextPlain
  \/ _parkerInit2
  \/ _parkerDualSquares
  \/ _parkerSearchBegin2
  \/ SearchIteration2
  \/ SearchFinish2

\* A step of a search loop, by what it changes: an iteration of
\* parkersquare.py counts ("iteration += 1", or back to 0 at a save), an
\* iteration of parkersquare2.py moves the cursor, but for a ninth field
\* that fails the final check, after which the next one moves it; the
\* return after the loop leaves it.  Inside a loop one of these is possible,
\* so this is enabled exactly there.
SearchLoop ==
  /\ pc = "search"
  /\ pc' \in {"search", "done", "raised"}
  /\ iteration' \in 0..(SaveInterval + 1)
  /\ glbCntSearch' \in 0..(glbMatrixSize + 1)

\* A loop that was entered is not held up.
SpecSearch ==
  /\ InitSearch
  /\ [][NextSearch]_vars
  /\ WF_<<pc, iteration, glbCntSearch>>(SearchLoop)

\* ------------------------------------------------- the table on its own
\* Largest magic number and power for which the table alone is built.
MaxTableMagic == 75
MaxTablePower == 3

\* parkersquare.py entered for a magic number and a power; only the table
\* is followed.
InitTable ==
  /\ WalkIdle
  /\ FilterIdle
  /\ prog = "generic"
  /\ inMagicNumber \in 0..MaxTableMagic
  /\ glbPower \in 1..MaxTablePower
  /\ glbBruteForce = FALSE
  /\ cfgState = FALSE
  /\ cfgSingle = TRUE
  /\ glbArrSize = InitialSize
  /\ glbArrNumbers = InitialNumbers
  /\ glbArrValues = <<>>
  /\ glbMatrix = EmptyMatrix
  /\ glbCntSearch = 0
  /\ found = FALSE
  /\ iteration = 0
  /\ pc = "start"
  /\ exc = "none"
  /\ retval = "none"
  /\ outcome = "none"
  /\ emitted = <<>>
  /\ stateFile = NoFile
  /\ tableBuilt = FALSE
  /\ resumed = FALSE
  /\ shadow = NoShadow
  /\ returned = {}

NextTable == _parkerInit

SpecTable == InitTable /\ [][NextTable]_vars

\* ------------------------------------------------ the filters on their own
\* Largest argument, and largest negative argument, a filter is called with.
MaxArg == 2100
MaxNegArg == 20

BoolResult(b) == [kind |-> IF b THEN "True" ELSE "False", val |-> 0]

\* One of the three filters is about to be called with an integer.
InitFilters ==
  /\ EngineIdle
  /\ WalkIdle
  /\ fn = "start"
  /\ arg \in (-MaxNegArg)..MaxArg
  /\ fnResult = NoResult

CallIsSquare ==
  /\ fn = "start"
  /\ fn' = "ParkerIsSquare"
  /\ fnResult' = BoolResult(ParkerIsSquare(arg))
  /\ UNCHANGED <<engineVars, walkVars, arg>>

\* The callers pass magnitudes of the table, which are not negative.
CallIntegerSqrt ==
  /\ fn = "start"
  /\ arg >= 0
  /\ fn' = "ParkerIntegerSqrt"
  /\ fnResult' = ParkerIntegerSqrt(arg)
  /\ UNCHANGED <<engineVars, walkVars, arg>>

\* The callers pass the magic number, which is not negative; for 0 the
\* loop that strips the factors of 4 never ends.
CallThreeSquareCheck ==
  /\ fn = "start"
  /\ arg >= 0
  /\ fn' = "ParkerThreeSquareCheck"
  /\ fnResult' = IF ThreeSquareLoops(arg)
                  THEN [kind |-> "NeverReturns", val |-> 0]
                  ELSE BoolResult(ParkerThreeSquareCheck(arg))
  /\ UNCHANGED <<engineVars, walkVars, arg>>

NextFilters ==
  \/ CallIsSquare
  \/ CallIntegerSqrt
  \/ CallThreeSquareCheck

SpecFilters == InitFilters /\ [][NextFilters]_vars

\* ------------------------------------------------------------------ claims
\* The nine magnitudes of a grid are pairwise distinct.
DistinctMagnitudes(mat) ==
  \A i, j \in 1..9 :
    i # j => glbArrNumbers[mat[i]] # glbArrNumbers[mat[j]]

\* All eight line sums of a grid equal the magic number.
AllLinesMagic(mat) ==
  \A k \in 1..8 : LineSums(mat)[k] = inMagicNumber

\* The grid _parkerSearch starts from: empty, the centre pre-seeded in the
\* power-1 order.
InitialMatrix ==
  IF prog = "generic" /\ ~glbBruteForce /\ glbPower = 1
  THEN [EmptyMatrix EXCEPT ![5] = inMagicNumber \div 3]
  ELSE EmptyMatrix

\* C1: every grid reported as a solution has nine pairwise distinct
\* magnitudes and eight line sums equal to the magic number.  Stated for the
\* engine started on any state file: it is violated when the file holds a
\* grid with repeated indices, which the engine resumes from (C7).
C1_SolutionsAreMagic ==
  \A k \in 1..Len(emitted) :
    /\ DistinctMagnitudes(emitted[k])
    /\ AllLinesMagic(emitted[k])

\* C1, the state that refutes it: a reported grid with a repeated magnitude.
C1_RepeatedMagnitudeReported ==
  \E k \in 1..Len(emitted) : ~DistinctMagnitudes(emitted[k])

\* C2: a search entered again on the state a former process saved goes
\* through the same cursors and grids and reports the same solutions, in the
\* same order, as the former process would have from that save on.
C2_CheckpointRoundTrip ==
  (shadow.on /\ pc \in {"search", "done"}) =>
    /\ glbCntSearch = shadow.cnt
    /\ glbMatrix = shadow.mat
    /\ emitted = shadow.emitted

\* C2, its case: a search resumed from a saved state ran to its end and
\* reported solutions on the way.
C2_ResumedRunFinished ==
  /\ resumed
  /\ shadow.on
  /\ pc = "done"
  /\ outcome = "Found"
  /\ Len(emitted) >= 2

\* The iteration fills the last field of the search order.
LastFieldFilled ==
  /\ pc = "search"
  /\ glbCntSearch = glbMatrixSize
  /\ glbMatrix[glbSearchArr[glbMatrixSize].field] = 0
  /\ glbMatrix'[glbSearchArr[glbMatrixSize].field] # 0

\* C3: when the last field is filled the grid is reported as a solution if
\* and only if all eight line sums of its magnitudes equal the magic number;
\* a grid that is not is rejected with the cursor one step back, on 9.
C3_VerifierDecides ==
  [][LastFieldFilled =>
       IF AllLinesMagic(glbMatrix')
       THEN /\ emitted' = Append(emitted, glbMatrix')
            /\ found'
       ELSE /\ emitted' = emitted
            /\ found' = found
            /\ glbCntSearch' = glbMatrixSize]_vars

\* C3, its case: a complete grid whose rows, columns and one diagonal sum
\* to the magic number and whose other diagonal does not, rejected: not
\* reported, the cursor on 9.
C3_NearMissRejected ==
  /\ pc = "search"
  /\ glbCntSearch = glbMatrixSize
  /\ \A i \in 1..9 : glbMatrix[i] # 0
  /\ \A k \in 1..6 : LineSums(glbMatrix)[k] = inMagicNumber
  /\ (LineSums(glbMatrix)[7] = inMagicNumber) # (LineSums(glbMatrix)[8] = inMagicNumber)
  /\ glbMatrix \notin Rng(emitted)

\* C4: for a magic number that is not divisible by 3 no value table is
\* built, and the unit ends as Infeasible.
C4_NoTableWhenNotDivisible ==
  inMagicNumber % 3 # 0 =>
    /\ ~tableBuilt
    /\ (pc \in {"done", "raised"} => (pc = "done" /\ outcome = "Infeasible"))

\* C4, the state that refutes it: the unit ended as Infeasible for such a
\* number with the table built.
C4_TableBuiltThenInfeasible ==
  /\ inMagicNumber % 3 # 0
  /\ pc = "done"
  /\ outcome = "Infeasible"
  /\ tableBuilt

\* The smallest multiple of 3 that is not below n.
CeilThree(n) == 3 * ((n + 2) \div 3)

\* C5: the first candidate of a range handed to the search is the smallest
\* multiple of 3 not below the start of the range (or the restored walk
\* position, when that is further on), and every later candidate of the
\* range is the one before plus 3.
C5_RangeStepsByThree ==
  \A k \in 1..Len(tested) :
    LET c == tested[k]
        first == CeilThree(magicRanges[c.range + 1].start)
    IN  IF k > 1 /\ tested[k - 1].range = c.range
        THEN c.number = tested[k - 1].number + 3
        ELSE c.number = IF k = 1 THEN Max2(first, wRestored) ELSE first

\* C5, its case: a range whose start is no multiple of 3 was walked from
\* its first candidate on, the program was stopped, and the walk went on
\* from a restored position.
C5_OffThreeRangeResumed ==
  /\ magicRanges[1].start % 3 # 0
  /\ Len(testedBefore) >= 2
  /\ testedBefore[1] = [range |-> 0, number |-> CeilThree(magicRanges[1].start)]
  /\ wResumed
  /\ wRestored > 0
  /\ Len(tested) >= 2

\* C6: no two of the outcomes Found, NotFound and Infeasible come with the
\* same return value of ParkerSquare.
C6_OutcomesDistinguishable ==
  \A a, b \in returned : a[2] = b[2] => a[1] = b[1]

\* C6, the state that refutes it: a search without solution and a rejected
\* magic number returned the same value.
C6_SameValueReturned ==
  \E v \in {"None", "True", "False"} :
    {<<"NotFound", v>>, <<"Infeasible", v>>} \subseteq returned

\* What the claim C7 calls a structurally valid state: a grid of size 10, a
\* cursor in floor+1..9, indices of the value table, no index twice.
StructurallyValid(file) ==
  /\ DOMAIN file.glbMatrix = 0..glbMatrixSize
  /\ file.glbCntSearch \in (checkSearch + 1)..glbMatrixSize
  /\ \A i \in 1..9 : file.glbMatrix[i] \in DOMAIN glbArrNumbers
  /\ \A i, j \in 1..9 :
       i # j /\ file.glbMatrix[i] # 0 => file.glbMatrix[i] # file.glbMatrix[j]

\* _parkerSearch reads a state file that is not structurally valid.
InvalidStateRead ==
  /\ pc = "inited"
  /\ pc' = "search"
  /\ stateFile.kind = "state"
  /\ ~StructurallyValid(stateFile)

\* C7: a state file that is not structurally valid is rejected: the search
\* starts from the initial cursor and grid.
C7_InvalidCheckpointRejected ==
  [][InvalidStateRead =>
       /\ glbCntSearch' = checkSearch + 1
       /\ glbMatrix' = InitialMatrix]_vars

\* C7, the state that refutes it: the search stands on the cursor and grid
\* of a file whose grid has nine entries.
C7_ResumedFromShortGrid ==
  /\ pc = "search"
  /\ DOMAIN stateFile.glbMatrix # 0..glbMatrixSize
  /\ glbMatrix = stateFile.glbMatrix

\* C8: a state file that cannot be read back is taken as absent: no error
\* leaves ParkerSquare.
C8_UnreadableIsAbsent ==
  [][(pc = "inited" /\ stateFile.kind = "truncated") => pc' # "raised"]_vars

\* C8, the state that refutes it: json.load's error left ParkerSquare.
C8_DecodeErrorRaised ==
  /\ pc = "raised"
  /\ exc = "JSONDecodeError"
  /\ stateFile.kind = "truncated"

\* C9: after an interrupt in single-process mode with the state option on
\* the state file holds the cursor and grid of the moment of the interrupt.
C9_InterruptFlushesCheckpoint ==
  (pc = "raised" /\ exc = "KeyboardInterrupt" /\ prog = "generic"
     /\ cfgState /\ cfgSingle) =>
    /\ stateFile.kind = "state"
    /\ stateFile.glbCntSearch = glbCntSearch
    /\ stateFile.glbMatrix = glbMatrix

\* C9, the state that refutes it: the interrupt left ParkerSquare and no
\* state file was ever written.
C9_InterruptedWithoutFile ==
  /\ pc = "raised"
  /\ exc = "KeyboardInterrupt"
  /\ prog = "generic"
  /\ cfgState
  /\ cfgSingle
  /\ glbCntSearch > checkSearch + 1
  /\ stateFile.kind = "absent"

\* C10: with the state option on, a range sweep that was stopped and
\* started again goes on in the range it had reached, at most one saving
\* interval behind the candidate it had reached, and skips none.
C10_ResumesAtPersistedPosition ==
  (wResumed /\ wState /\ testedBefore # <<>> /\ tested # <<>>) =>
    LET reached == testedBefore[Len(testedBefore)]
        first == tested[1]
    IN  /\ first.range = reached.range
        /\ first.number >= reached.number - 3 * WalkSaveInterval
        /\ first.number <= reached.number + 3

\* C10, the state that refutes it: MainLoop with one process and the
\* state option on tested four candidates or more, was stopped, and tests
\* its first candidate again.
C10_RestartedAtRangeStart ==
  /\ wProg = "generic"
  /\ nrProcesses = 1
  /\ wState
  /\ wResumed
  /\ Len(testedBefore) >= 4
  /\ tested # <<>>
  /\ tested[1] = testedBefore[1]

\* A state file leaves the disk in this step.
StateFileRemoved ==
  \/ stateFile.kind # "absent" /\ stateFile'.kind = "absent"
  \/ rangeFile.kind # "absent" /\ rangeFile'.kind = "absent"
  \/ mainFile.kind # "absent" /\ mainFile'.kind = "absent"

\* C11: once a search of parkersquare.py has ended as Found or NotFound, a
\* walk of WalkRanges has reached the end of its range, or MainLoop has gone
\* through its ranges, the state file of that unit is not on the disk; and
\* no step that ends a unit by an interrupt or an exception removes a file.
C11_CheckpointGoneOnlyOnSuccess ==
  [][/\ (pc' = "done" /\ prog = "generic" /\ outcome' \in {"Found", "NotFound"})
          => stateFile'.kind = "absent"
     /\ (wpc' = "done" /\ wProg = "dual") => rangeFile'.kind = "absent"
     /\ (wpc' = "done" /\ wProg = "generic") => mainFile'.kind = "absent"
     /\ (pc' = "raised" \/ outcome' = "Interrupted"
           \/ wpc' \in {"raised", "ended"}) => ~StateFileRemoved]_vars

\* C11, its case: a search that went on from a state file has ended and the
\* file is gone.
C11_ResumedSearchLeftNoFile ==
  /\ resumed
  /\ shadow.on
  /\ pc = "done"
  /\ outcome \in {"Found", "NotFound"}
  /\ stateFile.kind = "absent"

\* Candidates of the ranges that come after candidate c.
CandidatesLeftAfter(c) ==
  \/ c.number + 3 <= magicRanges[c.range + 1].end
  \/ \E r \in (c.range + 2)..Len(magicRanges) :
       NormaliseStart(magicRanges[r].start) <= magicRanges[r].end

\* C12: a table that cannot be made ends only the unit it was for: the
\* sweep does not end on it while candidates are left.
C12_SweepSurvivesTableFailure ==
  (wpc = "ended" /\ wexc = "MemoryError") =>
    ~CandidatesLeftAfter(tested[Len(tested)])

\* C12, the state that refutes it: with one process MainLoop has ended on
\* the MemoryError of a candidate, later candidates untested.
C12_SweepEndedOnTableFailure ==
  /\ wProg = "generic"
  /\ nrProcesses = 1
  /\ wpc = "ended"
  /\ wexc = "MemoryError"
  /\ Len(tested) >= 2
  /\ CandidatesLeftAfter(tested[Len(tested)])

\* n is the square of an integer.
IsPerfectSquare(n) == \E k \in 0..n : k * k = n

\* C13: ParkerIsSquare returns, and returns True exactly for the squares:
\* False for every negative number.
C13_IsSquareDecides ==
  fn = "ParkerIsSquare" =>
    fnResult = BoolResult(arg >= 0 /\ IsPerfectSquare(arg))

\* C13, its case: a number that is no square passed every sieve and was
\* rejected by the root extraction.
C13_NonSquareThroughSieves ==
  /\ fn = "ParkerIsSquare"
  /\ arg = 1729
  /\ fnResult = BoolResult(FALSE)

\* C14: ParkerIntegerSqrt returns the root of every square and None for
\* every positive number that is no square, and raises nothing.
C14_IntegerSqrtRoundTrips ==
  fn = "ParkerIntegerSqrt" =>
    fnResult = IF IsPerfectSquare(arg)
               THEN [kind |-> "int", val |-> CHOOSE k \in 0..arg : k * k = arg]
               ELSE [kind |-> "None", val |-> 0]

\* C14, the state that refutes it: the call for 1, the square of 1, ended
\* in a division by zero.
C14_SqrtOfOneRaises ==
  /\ fn = "ParkerIntegerSqrt"
  /\ arg = 1
  /\ fnResult.kind = "ZeroDivisionError"

\* n = 4^a * (8m + 7) for some a and m: Legendre's excluded form.
LegendreForm(n) ==
  \E a \in 0..DecLen(n) * 2, m \in 0..(n \div 8) : n = Pow(4, a) * (8 * m + 7)

\* n is a sum of three squares of integers that are not negative.
SumOfThreeSquares(n) ==
  LET r == RootFrom(0, n, 2)
  IN  \E a \in 0..r : \E b \in a..r : \E c \in b..r :
        a * a + b * b + c * c = n

\* C15: for a positive number ParkerThreeSquareCheck returns False exactly
\* when the number is 4^a * (8m + 7), which is exactly when it is no sum of
\* three squares.
C15_ThreeSquareCheckIsLegendre ==
  (fn = "ParkerThreeSquareCheck" /\ arg > 0) =>
    /\ fnResult = BoolResult(~LegendreForm(arg))
    /\ fnResult = BoolResult(SumOfThreeSquares(arg))

\* C15, its case: 60 = 4 * 15 is rejected after a factor of 4 was removed.
C15_SixtyRejected ==
  /\ fn = "ParkerThreeSquareCheck"
  /\ arg = 60
  /\ fnResult = BoolResult(FALSE)

\* C16: with power 1 and the optimised plan the search of every multiple
\* of 3 from 15 on ends with found = True, and the grid it reports is a
\* magic square of nine different plain integers.
C16_PowerOneFinds ==
  (/\ glbPower = 1
   /\ ~glbBruteForce
   /\ inMagicNumber % 3 = 0
   /\ inMagicNumber >= 15
   /\ pc \in {"done", "raised"}) =>
    /\ pc = "done"
    /\ found
    /\ outcome = "Found"
    /\ emitted # <<>>
    /\ \A k \in 1..Len(emitted) :
         /\ DistinctMagnitudes(emitted[k])
         /\ AllLinesMagic(emitted[k])
         /\ \A i \in 1..9 : glbArrNumbers[emitted[k][i]] = emitted[k][i]

\* C16, its case: the search of 45 with power 1 and the optimised plan has
\* reported a grid.
C16_FortyFiveFound ==
  /\ glbPower = 1
  /\ ~glbBruteForce
  /\ inMagicNumber = 3 * (MaxPlainMagic \div 3)
  /\ pc = "done"
  /\ Len(emitted) = 1

\* The powers of positive integers that do not exceed a magic number.
PowersUpTo(number, power) ==
  {Pow(r, power) : r \in {q \in 1..number : Pow(q, power) <= number}}

\* There is a 3x3 grid of nine different powers of positive integers whose
\* three rows, three columns and two diagonals all sum to the magic number.
\* Fields 1, 3 and 5 are chosen, the other six follow from the lines.
MagicSquareExists(number, power) ==
  LET powers == PowersUpTo(number, power)
  IN \E f1 \in powers :
       \E f3 \in powers \ {f1} :
         /\ number - f1 - f3 \in powers
         /\ \E f5 \in powers \ {f1, f3} :
              LET f2 == number - f1 - f3
                  f7 == number - f3 - f5
                  f4 == number - f1 - f7
                  f6 == number - f4 - f5
                  f8 == number - f2 - f5
                  f9 == number - f3 - f6
                  grid == <<f1, f2, f3, f4, f5, f6, f7, f8, f9>>
              IN /\ f7 \in powers
                 /\ \A i \in 1..9 : grid[i] \in powers
                 /\ \A i, j \in 1..9 : i # j => grid[i] # grid[j]
                 /\ f7 + f8 + f9 = number
                 /\ f1 + f5 + f9 = number

\* C17: a search that is left alone ends with found = True exactly when a
\* magic square of the given power exists for its magic number, whichever
\* plan it ran; hence for one magic number and one power the optimised plan
\* (power-1 plan or general plan) reports found exactly when the brute-force
\* plan does.  A search that ends in an exception reports nothing.
C17_PlansAgree ==
  pc \in {"done", "raised"} =>
    ((found /\ outcome = "Found" /\ emitted # <<>>)
       <=> MagicSquareExists(inMagicNumber, glbPower))

\* C17 witness: the brute-force plan has found a square for a magic number
\* for which the power-1 plan is run as well.
C17_BruteForceFound ==
  /\ glbBruteForce
  /\ glbPower = 1
  /\ inMagicNumber = 18
  /\ pc = "done"
  /\ found
  /\ MagicSquareExists(inMagicNumber, glbPower)

\* The files a worker of parkersquare.py writes: _parkerInit names the
\* output file parker_<magic number>.txt and the checkpoint
\* state_<magic number>.txt; the range the number came from is no part of
\* either name.
WorkerFiles(number) == {<<"parker", number>>, <<"state", number>>}

\* The slots whose process is running.
LiveSlots == {k \in DOMAIN procArr : procArr[k].busy /\ procArr[k].alive}

\* C18: the files of two worker processes that run at the same time are
\* different: no checkpoint file and no output file has two writers.
C18_LiveWorkersWriteOwnFiles ==
  \A k, j \in LiveSlots :
    k # j => WorkerFiles(procArr[k].number)
               \cap WorkerFiles(procArr[j].number) = {}

\* C18 refuted: two ranges overlap and a number of both runs in two live
\* workers at once.
C18_SameNumberInTwoWorkers ==
  /\ wProg = "generic"
  /\ Len(magicRanges) = 2
  /\ ~wResumed
  /\ \E k, j \in LiveSlots :
       /\ k # j
       /\ procArr[k].number = procArr[j].number

\* C19: when the writing process has been killed, the engine checkpoint,
\* the walker checkpoint and the dispatcher state on disk are each a
\* complete record, the one before the save or the new one, or absent when
\* none was written yet: never a file cut short.
C19_KilledSaveLeavesWholeFile ==
  (pc = "killed" \/ wpc = "killed") =>
    /\ stateFile.kind # "truncated"
    /\ rangeFile.kind # "truncated"
    /\ mainFile.kind # "truncated"

\* C19 refuted: the engine was killed inside _parkerStateSave after
\* open(.., "w") had emptied the checkpoint and before write() filled it.
C19_CheckpointCutShort ==
  /\ prog = "generic"
  /\ pc = "killed"
  /\ iteration = 0
  /\ stateFile = TruncatedFile

\* The position MainLoop takes from a state dictionary (lines 914-923):
\* range 0 and number 0 when the dictionary holds none.
PersistedRange(file) ==
  IF file.currentRange >= 0 THEN file.currentRange ELSE 0

PersistedWalk(file) ==
  IF file.currentRange >= 0 /\ file.currentCntRange > 0
  THEN file.currentCntRange ELSE 0

\* A number of a range lies at or after the position of a state file.
AtOrAfter(range, number, file) ==
  \/ range > PersistedRange(file)
  \/ range = PersistedRange(file) /\ number >= PersistedWalk(file)

\* The numbers "currprocs" of a state file holds.
InFlight(file) ==
  IF file.hasProcs THEN {file.currprocs[i] : i \in 1..Len(file.currprocs)}
  ELSE {}

\* The dispatcher with a pool of processes and the state option is stopped
\* in this step.
PooledStop ==
  /\ wProg = "generic"
  /\ wState
  /\ nrProcesses > 1
  /\ wpc \in {"range", "walk"}
  /\ wpc' \in {"killed", "ended"}

\* C20: wherever the pooled dispatcher with the state option is stopped,
\* the state file left on disk can be read, every number whose process was
\* running is in its "currprocs" or lies at or after its position, and so
\* does the position the walk had reached; and the next start runs the
\* numbers of "currprocs" again and goes on from that position.
C20_NoUnfinishedUnitLost ==
  [][/\ PooledStop =>
          /\ mainFile'.kind = "state"
          /\ \A k \in LiveSlots :
               \/ procArr[k].number \in InFlight(mainFile')
               \/ \E i \in 1..Len(tested) :
                    /\ tested[i].number = procArr[k].number
                    /\ AtOrAfter(tested[i].range, tested[i].number, mainFile')
          /\ AtOrAfter(iCurrRange, iRangeWalk, mainFile')
     /\ (/\ wProg = "generic"
         /\ wResumed
         /\ nrProcesses > 1
         /\ wpc = "loop"
         /\ wpc' = "range"
         /\ mainState.kind = "state") =>
          /\ \A n \in InFlight(mainState) :
               \E k \in DOMAIN procArr' :
                 procArr'[k] = ProcOf(n)
          /\ iCurrRange' = PersistedRange(mainState)
          /\ iRangeWalk' = PersistedWalk(mainState)]_vars

\* C20 refuted: the pooled dispatcher was stopped inside StateWrite with
\* numbers in flight; the next start ends in json.load and starts none.
C20_RestartStartedNothing ==
  /\ wProg = "generic"
  /\ wState
  /\ nrProcesses > 1
  /\ wResumed
  /\ wpc = "raised"
  /\ wexc = "JSONDecodeError"
  /\ Len(testedBefore) >= 2
  /\ tested = <<>>
  /\ restarted = <<>>

\* ------------------------------ the dispatcher of parkersquare2.py
\* MainLoop of parkersquare2.py hands whole ranges to WalkRanges processes.
\* In this part procArr holds, per slot, the range number and the end
\* StartThread was given (elem "iRangeNo", "iEnd"); iRangeWalk, iIteration
\* and rangeFile hold, per range number, the position, the counter and the
\* state file state_<iRangeNo>.json of its WalkRanges; wRestored the
\* position each WalkRanges began at and tested the numbers it handed to
\* ParkerSquare.  With one process StartThread runs
\* WalkRanges itself: slot 0 then stands for that call, and MainLoop goes on
\* when it has returned.

\* "split range into ranges for each process": a single range with more
\* than one process is cut into nrProcesses ranges of (end - start) //
\* nrProcesses numbers, the last one ending at the end given.
SplitRanges(ranges, n) ==
  IF Len(ranges) = 1 /\ n > 1
  THEN LET startNum == ranges[1].start
           iRange == (ranges[1].end - startNum) \div n
       IN  [k \in 1..n |->
              [start |-> startNum + (k - 1) * iRange,
               end |-> IF k = n THEN ranges[1].end
                       ELSE startNum + k * iRange - 1]]
  ELSE ranges

NoRangeProc == [busy |-> FALSE, number |-> 0, alive |-> FALSE, iEnd |-> 0]

\* StartThread( iRangeNo, iStart, iEnd, .. ): the slot of the new process.
RangeProc(iRangeNo, iEnd) ==
  [busy |-> TRUE, number |-> iRangeNo, alive |-> TRUE, iEnd |-> iEnd]

\* WalkRanges up to its loop, for range number r: the position read from
\* its state file, or the start moved to a multiple of 3 when that is
\* larger.
WalkRangesFrom(ranges, files, r) ==
  Max2(NormaliseStart(ranges[r + 1].start),
       IF wState /\ files[r].kind = "state" THEN files[r].iRangeWalk ELSE 0)

InitDispatch ==
  /\ EngineIdle
  /\ FilterIdle
  /\ wProg = "dual"
  /\ nrProcesses \in 1..MaxProcesses
  /\ wState \in BOOLEAN
  /\ \E r \in Ranges :
       \/ magicRanges = <<r>>
       \/ /\ r.start = MaxRangeStart
          /\ magicRanges = <<[start |-> 1, end |-> 6], r>>
  /\ wpc = "main"
  /\ wexc = "none"
  /\ iCurrRange = 0
  /\ iRangeWalk = <<>>
  /\ iIteration = <<>>
  /\ procArr = [k \in 0..(nrProcesses - 1) |-> NoRangeProc]
  /\ mainState = NoMainState
  /\ mainFile = NoMainFile
  /\ rangeFile = <<>>
  /\ tested = <<>>
  /\ testedBefore = <<>>
  /\ restarted = <<>>
  /\ wResumed = FALSE
  /\ wRestored = <<>>

\* MainStart and MainLoop of parkersquare2.py up to the loop over the
\* ranges: StateCreateLoad, the split, StartThread for every range number
\* of the state's "currprocs" with the range's 'end' as it is, and the
\* range to go on with.
MainLoopBegin2 ==
  /\ wpc = "main"
  /\ wProg = "dual"
  /\ LET state == IF ~wState THEN NoMainState
                  ELSE IF mainFile.kind = "state" THEN mainFile
                  ELSE NewMainState
         ranges == SplitRanges(magicRanges, nrProcesses)
         numbers == 0..(Len(ranges) - 1)
         again == IF state.kind = "state" /\ state.hasProcs
                  THEN state.currprocs ELSE <<>>
         files == IF wResumed THEN rangeFile
                  ELSE [r \in numbers |-> NoRangeFile]
         begun == [r \in numbers |->
                     IF \E i \in DOMAIN again : again[i] = r
                     THEN WalkRangesFrom(ranges, files, r) ELSE 0]
     IN  /\ mainState' = state
         /\ mainFile' = IF wState THEN state ELSE mainFile
         /\ magicRanges' = ranges
         /\ rangeFile' = files
         /\ restarted' = again
         /\ procArr' = [k \in DOMAIN procArr |->
                          IF k + 1 <= Len(again)
                          THEN RangeProc(again[k + 1], ranges[again[k + 1] + 1].end)
                          ELSE NoRangeProc]
         /\ iRangeWalk' = begun
         /\ wRestored' = begun
         /\ iIteration' = [r \in numbers |-> 0]
         /\ tested' = [r \in numbers |-> <<>>]
         /\ iCurrRange' = IF state.kind = "state" /\ state.currentRange >= 0
                          THEN state.currentRange ELSE 0
  /\ wpc' = "range"
  /\ UNCHANGED <<engineVars, filterVars>>
  /\ UNCHANGED <<wProg, nrProcesses, wState, wexc, testedBefore, wResumed>>

\* "while iCurrRange < len( magicRanges )": StartThread for the range with
\* 'end' + 1.  With one process WalkRanges runs inside the call; else the
\* first free slot takes the new process and the loop goes to the next
\* range, or there is no free slot and the state is written.
DispatchRange ==
  /\ wpc = "range"
  /\ wProg = "dual"
  /\ iCurrRange < Len(magicRanges)
  /\ IF nrProcesses <= 1 \/ FreeSlots(procArr) # {}
     THEN /\ procArr' =
               IF nrProcesses <= 1
               THEN [procArr EXCEPT ![0] = RangeProc(iCurrRange, endNum)]
               ELSE [CleanedProcArr(procArr) EXCEPT
                       ![FirstFree(procArr)] = RangeProc(iCurrRange, endNum)]
          /\ iRangeWalk' = [iRangeWalk EXCEPT ![iCurrRange] =
                              WalkRangesFrom(magicRanges, rangeFile, iCurrRange)]
          /\ wRestored' = [wRestored EXCEPT ![iCurrRange] = iRangeWalk'[iCurrRange]]
          /\ iIteration' = [iIteration EXCEPT ![iCurrRange] = 0]
          /\ iCurrRange' = IF nrProcesses <= 1 THEN iCurrRange ELSE iCurrRange + 1
          /\ wpc' = IF nrProcesses <= 1 THEN "call" ELSE "range"
          /\ UNCHANGED <<mainState, mainFile>>
     ELSE /\ procArr' = CleanedProcArr(procArr)
          /\ mainState' = _writeCurrentState(mainState, procArr', iCurrRange, -1)
          /\ mainFile' = IF mainState.kind = "none" THEN mainFile
                         ELSE mainState'
          /\ UNCHANGED <<iRangeWalk, wRestored, iIteration, iCurrRange, wpc>>
  /\ UNCHANGED <<engineVars, filterVars>>
  /\ UNCHANGED <<wProg, magicRanges, nrProcesses, wState, wexc, rangeFile,
                 tested, testedBefore, restarted, wResumed>>

\* The WalkRanges of range number r is inside ParkerSquare( iRangeWalk ):
\* the number was handed over and the call has not returned.
InParkerSquare(r) ==
  /\ tested[r] # <<>>
  /\ tested[r][Len(tested[r])] = iRangeWalk[r]

\* One pass of the loop of a WalkRanges process, "while iRangeWalk <
\* endNum" with the endNum it was started with: the periodic save, then
\* ParkerSquare for the number, which does not return when
\* ParkerThreeSquareCheck of _parkerInit never ends.
WorkerStep ==
  /\ wpc \in {"range", "call"}
  /\ wProg = "dual"
  /\ \E k \in DOMAIN procArr :
       LET r == procArr[k].number
           save == iIteration[r] + 1 > WalkSaveInterval
       IN  /\ procArr[k].alive
           /\ ~InParkerSquare(r)
           /\ iRangeWalk[r] < procArr[k].iEnd
           /\ iIteration' = [iIteration EXCEPT ![r] = IF save THEN 1 ELSE @ + 1]
           /\ rangeFile' =
                IF save /\ wState
                THEN [rangeFile EXCEPT ![r] =
                        RangeFileOf("state",
                                    NormaliseStart(magicRanges[r + 1].start),
                                    procArr[k].iEnd, iRangeWalk[r])]
                ELSE rangeFile
           /\ tested' = [tested EXCEPT ![r] = Append(@, iRangeWalk[r])]
           /\ iRangeWalk' = [iRangeWalk EXCEPT ![r] =
                              IF ThreeSquareLoops(@) THEN @ ELSE @ + 3]
  /\ UNCHANGED <<engineVars, filterVars>>
  /\ UNCHANGED <<wProg, magicRanges, nrProcesses, wState, wpc, wexc,
                 iCurrRange, procArr, mainState, mainFile, testedBefore,
                 restarted, wResumed, wRestored>>

\* A WalkRanges process after its loop: its state file is removed and the
\* process ends; with one process StartThread returns and MainLoop goes to
\* the next range.
WorkerEnd ==
  /\ wpc \in {"range", "call"}
  /\ wProg = "dual"
  /\ \E k \in DOMAIN procArr :
       LET r == procArr[k].number
       IN  /\ procArr[k].alive
           /\ ~InParkerSquare(r)
           /\ ~(iRangeWalk[r] < procArr[k].iEnd)
           /\ procArr' = [procArr EXCEPT ![k].alive = FALSE]
           /\ rangeFile' = IF wState
                           THEN [rangeFile EXCEPT ![r] = NoRangeFile]
                           ELSE rangeFile
  /\ wpc' = IF wpc = "call" THEN "range" ELSE wpc
  /\ iCurrRange' = IF wpc = "call" THEN iCurrRange + 1 ELSE iCurrRange
  /\ UNCHANGED <<engineVars, filterVars>>
  /\ UNCHANGED <<wProg, magicRanges, nrProcesses, wState, wexc, iRangeWalk,
                 iIteration, mainState, mainFile, tested, testedBefore,
                 restarted, wResumed, wRestored>>

\* MainLoop of parkersquare2.py after its loop over the ranges: while a
\* child is alive the state is written, then the state file is removed.
WaitProcesses2 ==
  /\ wpc = "range"
  /\ wProg = "dual"
  /\ ~(iCurrRange < Len(magicRanges))
  /\ IF nrProcesses > 1 /\ \E k \in DOMAIN procArr : procArr[k].alive
     THEN /\ mainState' = _writeCurrentState(mainState, procArr, iCurrRange, -1)
          /\ mainFile' = IF mainState.kind = "none" THEN mainFile
                         ELSE mainState'
          /\ UNCHANGED wpc
     ELSE /\ mainFile' = IF mainState.kind = "none" THEN mainFile
                         ELSE NoMainFile
          /\ wpc' = "done"
          /\ UNCHANGED mainState
  /\ UNCHANGED <<engineVars, filterVars>>
  /\ UNCHANGED <<wProg, magicRanges, nrProcesses, wState, wexc, iCurrRange,
                 iRangeWalk, iIteration, procArr, rangeFile, tested,
                 testedBefore, restarted, wResumed, wRestored>>

\* The program is killed, its WalkRanges processes with it; the files stay.
DispatchKill ==
  /\ wpc \in {"range", "call"}
  /\ wProg = "dual"
  /\ ~wResumed
  /\ wpc' = "killed"
  /\ procArr' = [k \in DOMAIN procArr |-> NoRangeProc]
  /\ mainState' = NoMainState
  /\ UNCHANGED <<engineVars, filterVars>>
  /\ UNCHANGED <<wProg, magicRanges, nrProcesses, wState, wexc, iCurrRange,
                 iRangeWalk, iIteration, mainFile, rangeFile, tested,
                 testedBefore, restarted, wResumed, wRestored>>

\* The program is started again: the state file names the ranges, which
\* are the ranges as they were split.
DispatchRestart ==
  /\ wpc = "killed"
  /\ wProg = "dual"
  /\ wResumed' = TRUE
  /\ wpc' = "main"
  /\ testedBefore' = tested
  /\ iCurrRange' = 0
  /\ UNCHANGED <<engineVars, filterVars>>
  /\ UNCHANGED <<wProg, magicRanges, nrProcesses, wState, wexc, iRangeWalk,
                 iIteration, procArr, mainState, mainFile, rangeFile, tested,
                 restarted, wRestored>>

NextDispatch ==
  \/ MainLoopBegin2
  \/ DispatchRange
  \/ WorkerStep
  \/ WorkerEnd
  \/ WaitProcesses2
  \/ DispatchKill
  \/ DispatchRestart

SpecDispatch == InitDispatch /\ [][NextDispatch]_vars

\* The run nobody stops: the dispatcher and its WalkRanges processes go on
\* as long as one of them can take a step.
NextSweep ==
  \/ MainLoopBegin2
  \/ DispatchRange
  \/ WorkerStep
  \/ WorkerEnd
  \/ WaitProcesses2

SpecSweep == InitDispatch /\ [][NextSweep]_vars /\ WF_vars(NextSweep)

C22_TableIsExact ==
  (/\ prog = "generic"
   /\ pc = "inited"
   /\ inMagicNumber - 1 - Pow(2, glbPower) >= 0) =>
    LET base == inMagicNumber - 1 - Pow(2, glbPower)
    IN  /\ Pow(glbArrSize, glbPower) <= base
        /\ base < Pow(glbArrSize + 1, glbPower)
        /\ DOMAIN glbArrNumbers = 0..glbArrSize
        /\ \A i \in 0..glbArrSize :
             /\ glbArrNumbers[i] = Pow(i, glbPower)
             /\ glbArrValues[Pow(i, glbPower)] = i

\* C22 refuted: for magic number 73 and power 3 the base is 64 = 4^3 and
\* the table ends at 3.
C22_CubeLeftOut ==
  /\ prog = "generic"
  /\ pc = "inited"
  /\ glbPower = 3
  /\ inMagicNumber = 73
  /\ glbArrSize = 3

\* The pairs (s, t) of different squares with s below the centre and
\* s + t = mid, the magic number less the centre, as pairs of roots.
DualPairs(number) ==
  LET x5 == number \div 3
      mid == number - x5
  IN  {kj \in (1..LastCount(x5)) \X (1..LastCount(mid)) :
         /\ kj[1] < kj[2]
         /\ kj[1] * kj[1] + kj[2] * kj[2] = mid}

\* C23: the step of _parkerDualSquares ends the call as Infeasible, with no
\* search step made, exactly when fewer than four pairs of squares were
\* found; with four pairs or more it goes on to the search.
C23_InfeasibleIffUnderFourPairs ==
  [][(/\ prog = "dual"
      /\ pc = "inited"
      /\ ~tableBuilt
      /\ tableBuilt') =>
       IF Cardinality(DualPairs(inMagicNumber)) < 4
       THEN /\ outcome' = "Infeasible"
            /\ pc' = "done"
            /\ glbCntSearch' = 0
       ELSE /\ outcome' # "Infeasible"
            /\ pc' = "tabled"]_vars

\* C23 refuted: four pairs were found, one of them holding the square 1,
\* and the call ended in ParkerIntegerSqrt(1) before the search.
C23_FourPairsNoSearch ==
  /\ prog = "dual"
  /\ inMagicNumber = 2910675
  /\ tableBuilt
  /\ Cardinality(DOMAIN glbArrNumbers) = 10
  /\ pc = "raised"
  /\ exc = "ZeroDivisionError"
  /\ iteration = 0

\* C24: a search loop that was entered from the initial state ends: the
\* call returns with the cursor at or below the floor, or, in a plan that
\* stops at its first solution, above 9 with a solution found; a brute-force
\* search always returns with the cursor at or below the floor.
C24_SearchLoopEnds ==
  (pc = "search") ~>
    (/\ pc = "done"
     /\ \/ glbCntSearch <= checkSearch
        \/ /\ glbCntSearch > glbMatrixSize
           /\ found
           /\ ~glbBruteForce)

\* C24 refuted: the loop of the power-1 plan was left by an IndexError with
\* the cursor between the floor and 9.
C24_LoopLeftByIndexError ==
  /\ prog = "generic"
  /\ glbPower = 1
  /\ ~glbBruteForce
  /\ pc = "raised"
  /\ exc = "IndexError"
  /\ checkSearch < glbCntSearch
  /\ glbCntSearch <= glbMatrixSize

\* The size of the value table: glbArrSize in parkersquare.py, the last
\* index of glbArrNumbers in parkersquare2.py.
TableSize ==
  IF prog = "dual" THEN Cardinality(DOMAIN glbArrNumbers) - 1 ELSE glbArrSize

\* The candidate of an enumerated field: the smallest index above the
\* slot's value, or above the largest of the listed prior fields when the
\* slot is empty, that no slot of the grid holds.
EnumCandidate(mat, step) ==
  LET prior == {0} \cup {mat[step.start[i]] : i \in DOMAIN step.start}
      base == IF mat[step.field] # 0 THEN mat[step.field]
              ELSE CHOOSE m \in prior : \A w \in prior : w <= m
      used == {mat[i] : i \in DOMAIN mat}
  IN  CHOOSE v \in (base + 1)..(base + glbMatrixSize + 1) :
        /\ v \notin used
        /\ \A w \in (base + 1)..(v - 1) : w \in used

\* The cursor is in the loop at a step whose field is enumerated.
AtEnumeratedStep ==
  /\ pc = "search"
  /\ LoopCondition(glbCntSearch)
  /\ glbSearchArr[glbCntSearch].calc = <<>>

\* C25: an iteration at an enumerated field stores the candidate and
\* advances the cursor, unless the candidate exceeds the size of the value
\* table: then the slot is cleared and the cursor moves back one step.
C25_EnumeratedUpToTableSize ==
  [][AtEnumeratedStep =>
       LET step == glbSearchArr[glbCntSearch]
           cand == EnumCandidate(glbMatrix, step)
       IN  IF cand > TableSize
           THEN /\ glbMatrix' = [glbMatrix EXCEPT ![step.field] = 0]
                /\ glbCntSearch' = glbCntSearch - 1
           ELSE /\ glbMatrix' = [glbMatrix EXCEPT ![step.field] = cand]
                /\ glbCntSearch' = glbCntSearch + 1]_vars

\* C25 refuted: in an optimised plan the candidate of an enumerated field
\* is an index of the table, and beyond the bound the plan enumerates to.
C25_TableIndexNeverTried ==
  /\ prog = "generic"
  /\ ~glbBruteForce
  /\ AtEnumeratedStep
  /\ EnumCandidate(glbMatrix, glbSearchArr[glbCntSearch]) <= TableSize
  /\ EnumCandidate(glbMatrix, glbSearchArr[glbCntSearch]) > maxSearch

\* The cursor is in the loop at a step whose field is derived from two
\* other fields.
AtDerivedStep ==
  /\ pc = "search"
  /\ LoopCondition(glbCntSearch)
  /\ glbSearchArr[glbCntSearch].calc # <<>>

\* The table indexes the two fields of the derived step hold.
CalcIndexes ==
  {glbMatrix[glbSearchArr[glbCntSearch].calc[1]],
   glbMatrix[glbSearchArr[glbCntSearch].calc[2]]}

\* C26: an iteration at a derived field with an empty slot computes
\* value = magic number - table[grid[c1]] - table[grid[c2]].  When value
\* is not positive, is no magnitude of the table, or its index is in the
\* grid, the cursor moves back one step and the grid stays as it is;
\* otherwise that slot alone is set to the index of value and the cursor
\* advances by one (at the ninth step the verifier of the full grid may
\* take that advance back).
C26_DerivedEmptySlot ==
  [][(AtDerivedStep /\ glbMatrix[glbSearchArr[glbCntSearch].field] = 0) =>
       /\ CalcIndexes \subseteq DOMAIN glbArrNumbers
       /\ LET step == glbSearchArr[glbCntSearch]
              value == inMagicNumber
                         - glbArrNumbers[glbMatrix[step.calc[1]]]
                         - glbArrNumbers[glbMatrix[step.calc[2]]]
              holds == {k \in DOMAIN glbArrNumbers : glbArrNumbers[k] = value}
              idx == CHOOSE k \in holds : \A j \in holds : k <= j
          IN  IF \/ value <= 0
                 \/ holds = {}
                 \/ idx \in {glbMatrix[s] : s \in DOMAIN glbMatrix}
              THEN /\ glbCntSearch' = glbCntSearch - 1
                   /\ glbMatrix' = glbMatrix
              ELSE /\ glbMatrix' = [glbMatrix EXCEPT ![step.field] = idx]
                   /\ \/ glbCntSearch' = glbCntSearch + 1
                      \/ /\ glbCntSearch = glbMatrixSize
                         /\ glbCntSearch' = glbCntSearch]_vars

\* C26 refuted: the search stopped with an IndexError at a derived field
\* with an empty slot, one of whose two fields holds an index that is not
\* in the table.
C26_DerivedFromOutsideTable ==
  /\ prog = "generic"
  /\ pc = "raised"
  /\ exc = "IndexError"
  /\ LoopCondition(glbCntSearch)
  /\ glbSearchArr[glbCntSearch].calc # <<>>
  /\ glbMatrix[glbSearchArr[glbCntSearch].field] = 0
  /\ ~(CalcIndexes \subseteq DOMAIN glbArrNumbers)

\* The step the cursor points at is a derived one whose slot is empty: the
\* next iteration calculates the field.
WillCalculate(cnt, mat) ==
  /\ LoopCondition(cnt)
  /\ glbSearchArr[cnt].calc # <<>>
  /\ mat[glbSearchArr[cnt].field] = 0

\* C27: an iteration at a derived field whose slot is filled clears that
\* slot, moves the cursor back exactly one step and changes no other slot;
\* and an iteration that does not advance the cursor never leaves it at a
\* derived field to be calculated, so a derived field is calculated again
\* only after the cursor went back to an enumerated field, which took a
\* new value, and advanced from there.
C27_DerivedFilledSlot ==
  [][/\ (AtDerivedStep /\ glbMatrix[glbSearchArr[glbCntSearch].field] # 0) =>
          /\ glbMatrix' =
               [glbMatrix EXCEPT ![glbSearchArr[glbCntSearch].field] = 0]
          /\ glbCntSearch' = glbCntSearch - 1
     /\ (pc = "search" /\ LoopCondition(glbCntSearch)
           /\ pc' = "search" /\ glbCntSearch' <= glbCntSearch) =>
          ~WillCalculate(glbCntSearch', glbMatrix')]_vars

\* C27 witnessed: the cursor came back to a derived field of the middle of
\* the plan, whose slot is filled, with all later fields empty again.
C27_BackAtDerivedField ==
  /\ AtDerivedStep
  /\ glbCntSearch < glbMatrixSize
  /\ glbMatrix[glbSearchArr[glbCntSearch].field] # 0
  /\ \A later \in (glbCntSearch + 1)..glbMatrixSize :
       glbMatrix[glbSearchArr[later].field] = 0

\* The grid over the table of parkersquare.py that has the indexes f1, f3
\* and f5 in fields 1, 3 and 5 and whose other six fields follow from the
\* lines through them; 0 where the magnitude is not in the table.
GridThrough(f1, f3, f5) ==
  LET at(value) == IF value > 0 /\ value \in DOMAIN glbArrValues
                   THEN glbArrValues[value] ELSE 0
      v1 == glbArrNumbers[f1]
      v3 == glbArrNumbers[f3]
      v5 == glbArrNumbers[f5]
      v2 == inMagicNumber - v1 - v3
      v7 == inMagicNumber - v3 - v5
      v4 == inMagicNumber - v1 - v7
      v6 == inMagicNumber - v4 - v5
      v8 == inMagicNumber - v2 - v5
      v9 == inMagicNumber - v3 - v6
  IN  [EmptyMatrix EXCEPT ![1] = f1, ![2] = at(v2), ![3] = f3,
                          ![4] = at(v4), ![5] = f5, ![6] = at(v6),
                          ![7] = at(v7), ![8] = at(v8), ![9] = at(v9)]

\* Every grid of nine different indexes of the table, none of them 0,
\* whose eight lines sum to the magic number.
MagicGrids ==
  LET index == 1..glbArrSize
      grids == {GridThrough(t[1], t[2], t[3]) : t \in index \X index \X index}
  IN  {g \in grids : /\ \A k \in 1..9 : g[k] # 0
                     /\ \A k, j \in 1..9 : k # j => g[k] # g[j]
                     /\ AllLinesMagic(g)}

\* The plan that goes on after a solution.
SearchesAll == prog = "generic" /\ glbBruteForce

\* C28: the iteration that verifies a solution leaves the cursor on the
\* ninth step in brute force and the loop goes on; a brute-force search ends
\* exhausted only, and has then reported every magic grid over its table,
\* each once.  In the optimised plans and in the dual-square engine that
\* iteration leaves the cursor past the ninth step, and the only step after
\* it is the end of the search, which changes neither grid nor report.
C28_SolutionPolicy ==
  [][/\ (pc = "search" /\ Len(emitted') > Len(emitted)) =>
          /\ pc' = "search"
          /\ found'
          /\ glbCntSearch' = IF SearchesAll THEN glbMatrixSize
                             ELSE glbMatrixSize + 1
          /\ LoopCondition(glbCntSearch') <=> SearchesAll
     /\ (pc = "search" /\ found /\ ~SearchesAll) =>
          /\ pc' = "done"
          /\ outcome' = "Found"
          /\ glbMatrix' = glbMatrix
          /\ glbCntSearch' = glbCntSearch
          /\ emitted' = emitted
     /\ (pc = "search" /\ pc' = "done" /\ SearchesAll) =>
          /\ glbCntSearch <= checkSearch
          /\ Rng(emitted) = MagicGrids
          /\ Len(emitted) = Cardinality(MagicGrids)]_vars

\* C28 witnessed: a brute-force search ended exhausted after it reported
\* eight solutions, all the magic grids over its table.
C28_AllReportedByBruteForce ==
  /\ SearchesAll
  /\ pc = "done"
  /\ glbCntSearch <= checkSearch
  /\ Len(emitted) = 8
  /\ Cardinality(MagicGrids) = 8

\* C29: at every step boundary of a search that began with the grid of
\* _parkerSearch, no two filled slots of the grid hold the same table
\* index, whichever plan or engine runs.
C29_NoIndexTwice ==
  \A i, j \in 1..glbMatrixSize :
    (i # j /\ glbMatrix[i] # 0 /\ glbMatrix[j] # 0) =>
      glbMatrix[i] # glbMatrix[j]

\* C29 witnessed: at a derived field the magnitude that completes the line
\* is in the table, and its index is one another slot of the grid holds; the
\* iteration will not fill the slot with it.
C29_SecondUseTurnedAway ==
  /\ AtDerivedStep
  /\ glbMatrix[glbSearchArr[glbCntSearch].field] = 0
  /\ CalcIndexes \subseteq DOMAIN glbArrNumbers
  /\ \E k \in 1..glbMatrixSize :
       /\ glbMatrix[k] # 0
       /\ glbMatrix[k] \in DOMAIN glbArrNumbers
       /\ glbArrNumbers[glbMatrix[k]] =
            inMagicNumber
              - glbArrNumbers[glbMatrix[glbSearchArr[glbCntSearch].calc[1]]]
              - glbArrNumbers[glbMatrix[glbSearchArr[glbCntSearch].calc[2]]]

\* The search runs the power-1 plan of parkersquare.py.
PowerOnePlan == prog = "generic" /\ ~glbBruteForce /\ glbPower = 1

\* C30: the power-1 plan enters its loop with the cursor at 2 and the grid
\* empty but for slot 5, which holds magic number / 3; while it searches no
\* iteration runs at step 1 and slot 5 holds magic number / 3 before and
\* after every step.  Every other plan, and the dual-square engine, enters
\* its loop with the cursor at 1 and the grid empty.
C30_CentreSeededAndKept ==
  [][/\ (pc # "search" /\ pc' = "search") =>
          IF PowerOnePlan
          THEN /\ glbCntSearch' = 2
               /\ glbMatrix' = [EmptyMatrix EXCEPT ![5] = inMagicNumber \div 3]
          ELSE /\ glbCntSearch' = 1
               /\ glbMatrix' = EmptyMatrix
     /\ (pc = "search" /\ PowerOnePlan) =>
          /\ glbMatrix[5] = inMagicNumber \div 3
          /\ glbMatrix'[5] = inMagicNumber \div 3
          /\ glbCntSearch >= 1
          /\ (glbCntSearch = 1 => (pc' = "done" /\ glbMatrix' = glbMatrix))]_vars

\* C30 witnessed: a search by the power-1 plan went back to step 1 and
\* ended there without a solution, the centre still in slot 5.
C30_BackAtCentreEndsSearch ==
  /\ PowerOnePlan
  /\ pc = "done"
  /\ ~found
  /\ glbCntSearch = 1
  /\ inMagicNumber >= 3
  /\ glbMatrix[5] = inMagicNumber \div 3
  /\ \A k \in (1..glbMatrixSize) \ {5} : glbMatrix[k] = 0

\* C31: while a search runs, the fields of the plan steps before the cursor
\* are filled and the fields of the plan steps after it are empty; hence
\* when the cursor is at a derived field whose slot is empty, the two
\* fields it is derived from are filled.
C31_PlanPrefixFilled ==
  pc = "search" =>
    /\ \A s \in 1..glbMatrixSize :
         /\ s < glbCntSearch => glbMatrix[glbSearchArr[s].field] # 0
         /\ s > glbCntSearch => glbMatrix[glbSearchArr[s].field] = 0
    /\ (AtDerivedStep /\ glbMatrix[glbSearchArr[glbCntSearch].field] = 0) =>
         0 \notin CalcIndexes

\* C31 refuted: the power-1 plan is at its third step, a field derived
\* from field 1 and the centre, and the slot of the centre, the field of
\* the first step, is empty.
C31_DerivedFromEmptyCentre ==
  /\ PowerOnePlan
  /\ pc = "search"
  /\ glbCntSearch = 3
  /\ AtDerivedStep
  /\ glbMatrix[glbSearchArr[1].field] = 0
  /\ 0 \in CalcIndexes

\* C32: every index a slot of the grid holds is one of 1..size of the
\* value table, the pre-seeded centre of the power-1 plan included, and no
\* lookup in the table fails.
C32_IndexesWithinTable ==
  /\ \A k \in 1..glbMatrixSize :
       glbMatrix[k] # 0 => glbMatrix[k] \in 1..TableSize
  /\ exc # "IndexError"

\* C32 refuted: the power-1 plan begins its search with a centre index that
\* the table does not have.
C32_CentreBeyondTable ==
  /\ PowerOnePlan
  /\ pc = "search"
  /\ glbCntSearch = 2
  /\ glbMatrix[5] = inMagicNumber \div 3
  /\ glbMatrix[5] > TableSize
  /\ \A k \in (1..glbMatrixSize) \ {5} : glbMatrix[k] = 0

\* C33: the table _parkerDualSquares builds has 0 at index 0 and after it
\* pairs of squares, the first of a pair below the centre and the second
\* above it, the two summing to the magic number less the centre; its
\* magnitudes from index 1 on are pairwise different; and when the table
\* is not given up for having fewer than four pairs, the centre is its last
\* entry, after the pairs.
C33_DualTableShape ==
  [][(prog = "dual" /\ ~tableBuilt /\ tableBuilt') =>
       LET table == glbArrNumbers'
           last == Cardinality(DOMAIN table) - 1
           x5 == inMagicNumber \div 3
           paired == IF outcome' = "Infeasible" THEN last ELSE last - 1
           root(n) == LastCount(n)
       IN  /\ inMagicNumber % 3 = 0
           /\ root(x5) * root(x5) = x5
           /\ DOMAIN table = 0..last
           /\ table[0] = 0
           /\ outcome' # "Infeasible" => (last >= 9 /\ table[last] = x5)
           /\ \A i, j \in 1..last : i # j => table[i] # table[j]
           /\ \A i \in 1..paired : root(table[i]) * root(table[i]) = table[i]
           /\ paired % 2 = 0
           /\ \A i \in 1..(paired \div 2) :
                /\ table[2 * i - 1] + table[2 * i] = inMagicNumber - x5
                /\ table[2 * i - 1] < x5
                /\ x5 < table[2 * i]]_vars

\* C33 witnessed: a table of four pairs and the centre was built and is
\* searched.
C33_FourPairsAndCentre ==
  /\ prog = "dual"
  /\ tableBuilt
  /\ pc = "search"
  /\ DOMAIN glbArrNumbers = 0..9
  /\ glbArrNumbers[9] = inMagicNumber \div 3
  /\ glbArrNumbers[1] + glbArrNumbers[2] = inMagicNumber - inMagicNumber \div 3

\* The multiples of 3 of a range, its end included.
CandidatesOf(range) == {m \in range.start..range.end : m % 3 = 0}

\* C34: in a run of parkersquare2.py that nothing stops, the ranges a
\* single range is split into for the processes have no candidate in common
\* and together the candidates of the range that was split; the numbers
\* handed to ParkerSquare for a range are multiples of 3 of that range, in
\* ascending order and once each; and in the end every multiple of 3 from
\* start to end of every range, the end included, has been handed over.
C34_RangesCovered ==
  /\ [][/\ (wpc = "main" /\ wpc' = "range") =>
             /\ Len(magicRanges') =
                  IF Len(magicRanges) = 1 /\ nrProcesses > 1
                  THEN nrProcesses ELSE Len(magicRanges)
             /\ Len(magicRanges) = 1 =>
                  /\ UNION {CandidatesOf(magicRanges'[i]) :
                              i \in DOMAIN magicRanges'}
                       = CandidatesOf(magicRanges[1])
                  /\ \A i, j \in DOMAIN magicRanges' :
                       i # j => CandidatesOf(magicRanges'[i])
                                  \cap CandidatesOf(magicRanges'[j]) = {}
        /\ wpc' # "main" =>
             \A r \in DOMAIN tested' :
               /\ Rng(tested'[r]) \subseteq CandidatesOf(magicRanges'[r + 1])
               /\ \A i \in DOMAIN tested'[r] :
                    i > 1 => tested'[r][i - 1] < tested'[r][i]]_vars
  /\ <>(/\ wpc # "main"
        /\ \A r \in DOMAIN tested :
             Rng(tested[r]) = CandidatesOf(magicRanges[r + 1]))

\* C34 refuted: the range starts at 0 and has more candidates; 0 was handed
\* to ParkerSquare, which does not return, and nothing else is handed over.
C34_SweepHeldAtZero ==
  /\ wProg = "dual"
  /\ wpc \in {"range", "call"}
  /\ ~wResumed
  /\ \E r \in DOMAIN tested :
       /\ InParkerSquare(r)
       /\ tested[r] = <<0>>
       /\ magicRanges[r + 1].end >= 3
       /\ \A k \in DOMAIN procArr :
            procArr[k].alive => procArr[k].number = r

\* C35: a range that MainLoop of parkersquare2.py starts again from the
\* "currprocs" of its state file is walked up to and including its end:
\* when the run is over, the numbers handed to ParkerSquare for it are the
\* multiples of 3 from the position it went on at to the end of the range.
C35_RestartedRangeKeepsEnd ==
  [][(wpc = "range" /\ wResumed /\ wpc' = "done") =>
       \A i \in DOMAIN restarted :
         LET r == restarted[i]
         IN  Rng(tested[r]) =
               {m \in wRestored[r]..magicRanges[r + 1].end : m % 3 = 0}]_vars

\* C35 refuted: the run that was started again is over, a range of its
\* "currprocs" ends at a multiple of 3 at or above the position it went on
\* at, and that end was not handed to ParkerSquare.
C35_RestartedRangeLostEnd ==
  /\ wProg = "dual"
  /\ wpc = "done"
  /\ wResumed
  /\ \E i \in DOMAIN restarted :
       LET r == restarted[i]
       IN  /\ magicRanges[r + 1].end % 3 = 0
           /\ wRestored[r] <= magicRanges[r + 1].end
           /\ magicRanges[r + 1].end \notin Rng(tested[r])
           /\ \A m \in wRestored[r]..(magicRanges[r + 1].end - 1) :
                m % 3 = 0 => m \in Rng(tested[r])

\* C36: a brute-force search with state saving that was stopped after a
\* save and entered again on the saved state ends with the result the
\* stopped run would have ended with: Found when a solution had been
\* reported before the save, also when none is reported after it.
C36_ResumedResultAsUninterrupted ==
  (/\ prog = "generic"
   /\ glbBruteForce
   /\ cfgState
   /\ resumed
   /\ shadow.on
   /\ pc = "done"
   /\ outcome \in {"Found", "NotFound"}) =>
    outcome = IF shadow.found THEN "Found" ELSE "NotFound"

\* C36 refuted: the stopped run had reported a solution before its last
\* save; the run that went on from the save reported none and ended as
\* NotFound.
C36_FoundLostOnResume ==
  /\ prog = "generic"
  /\ glbBruteForce
  /\ cfgState
  /\ resumed
  /\ shadow.on
  /\ pc = "done"
  /\ shadow.found
  /\ emitted = <<>>
  /\ outcome = "NotFound"

\* The search steps _parkerSearch has taken since the last save of this
\* run, or since its start when it has not saved: a save sets iteration to
\* 0 and the step of that pass follows it, every later pass counts one
\* more; before the first save iteration counts the passes from the start.
StepsSinceSave ==
  IF stateFile.kind = "state" THEN iteration + 1 ELSE iteration

\* C37: with state saving on, a search that was not entered again has at
\* every point taken at most SaveInterval steps since its last save, or
\* since its start; WalkRanges of parkersquare2.py has handed at most
\* WalkSaveInterval candidates to ParkerSquare since its last save.
C37_WorkSinceSaveBounded ==
  /\ (prog = "generic" /\ pc = "search" /\ cfgState /\ ~resumed) =>
       StepsSinceSave <= SaveInterval
  /\ (wProg = "dual" /\ wpc = "walk") => iIteration <= WalkSaveInterval

\* C37 refuted: the search has saved its state, and SaveInterval passes
\* have followed the pass of the save, whose step was taken too.
C37_OneStepMoreThanInterval ==
  /\ prog = "generic"
  /\ pc = "search"
  /\ cfgState
  /\ ~resumed
  /\ stateFile.kind = "state"
  /\ iteration = SaveInterval
  /\ StepsSinceSave = SaveInterval + 1

\* C38: ParkerThreeSquareCheck called with an integer that is not negative,
\* 0 included, returns: its answer is True or False.
C38_ThreeSquareCheckReturns ==
  (fn = "ParkerThreeSquareCheck" /\ arg >= 0) =>
    fnResult.kind \in {"True", "False"}

\* C38 refuted: ParkerThreeSquareCheck was called with 0 and is in its loop
\* over the factors of 4, which 0 never leaves.
C38_ZeroNeverLeavesLoop ==
  /\ fn = "ParkerThreeSquareCheck"
  /\ arg = 0
  /\ ThreeSquareLoops(arg)
  /\ fnResult.kind = "NeverReturns"

====
